---------------------------- MODULE Spec2Model ----------------------------
(***************************************************************************)
(* Model of PortfolioAnalyzer (portfolio_analyzer.py) and of the CSV       *)
(* normalizer DataProcessor (data_processor.py).                           *)
(*                                                                         *)
(* Numbers.  Python floats are modelled as exact rationals [n, d] with     *)
(* d > 0 in lowest terms; the record with d = 0 stands for a value that is *)
(* not a number.  Floating-point rounding is not modelled, so inputs that  *)
(* sit exactly on a comparison threshold are kept out of the input sets.   *)
(*                                                                         *)
(* Text.  A string is a sequence of one-character strings, so that         *)
(* containment tests, split and strip are computed as the code computes    *)
(* them.                                                                   *)
(***************************************************************************)
EXTENDS Integers, Sequences, FiniteSets, TLC

VARIABLES
    uploaded_file,  \* the table read from the uploaded CSV: sequence of raw rows
    ledger,         \* PortfolioAnalyzer.transactions_df: sequence of transactions
    out,            \* what the last entry point returned (op = "none": nothing called yet)
    calls,          \* what the entry points called so far returned, in call order
    stock_fetcher   \* the StockDataFetcher: its price_cache and cache_timestamp

vars == <<uploaded_file, ledger, out, calls, stock_fetcher>>

---------------------------------------------------------------------------
(* Bounds of the model *)

\* Longest ledger handed to the analyzer.
MaxLen == 3

\* Longest ledger handed to the analyzer when holdings are priced by lookups.
MaxLenPriced == 3

\* Longest ledger handed to the analyzer when its entry points are called
\* several times, and the number of calls made.
MaxLenCalls == 2
MaxCalls == 2

\* Number of times the normalizer is run on one uploaded table.
MaxRuns == 2

\* Largest number of attempts a lookup is asked to make.
MaxRetries == 4

\* Longest list of symbols prices are asked for, and the number of times
\* they are asked for on one fetcher.
MaxSymbols == 2
MaxFetches == 2
MaxClears == 1

---------------------------------------------------------------------------
(* Exact arithmetic standing for Python float arithmetic *)

Abs(i) == IF i < 0 THEN -i ELSE i

RECURSIVE GCD(_, _)
GCD(a, b) == IF b = 0 THEN a ELSE GCD(b, a % b)

\* n / d in lowest terms with a positive denominator; with d = 0 the result
\* is not a number (its d is 0).
Rat(n, d) ==
    IF d = 0 THEN [n |-> IF n = 0 THEN 0 ELSE 1, d |-> 0]
    ELSE LET g == GCD(Abs(n), Abs(d))
             s == IF d < 0 THEN -1 ELSE 1
         IN  [n |-> (s * n) \div g, d |-> (s * d) \div g]

RInt(i) == [n |-> i, d |-> 1]
RZero == RInt(0)
RAdd(a, b) == Rat(a.n * b.d + b.n * a.d, a.d * b.d)
RSub(a, b) == Rat(a.n * b.d - b.n * a.d, a.d * b.d)
RMul(a, b) == Rat(a.n * b.n, a.d * b.d)
\* a / b for b # 0.
RDiv(a, b) == Rat(a.n * b.d, a.d * b.n)
RAbs(a) == [n |-> Abs(a.n), d |-> a.d]
RLt(a, b) == a.n * b.d < b.n * a.d
RLe(a, b) == a.n * b.d <= b.n * a.d
RPos(a) == a.n > 0

---------------------------------------------------------------------------
(* Transactions *)

\* Symbols that get_unique_symbols leaves out.
SentinelSymbols == {"COMMISSION", "CASH_WITHDRAWAL", "CASH_DEPOSIT"}

EquitySymbols == {"AAA", "BBB"}

Dates == 1..2

Txn(s, a, q, p) == [symbol |-> s, action |-> a, quantity |-> q, price |-> p]

\* The transactions a ledger row is drawn from (date apart).  Quantities and
\* prices are whole units; rows other than Buy/Sell carry quantity 1 and the
\* amount as price, as the normalizer writes them.
TradePool ==
    { Txn("AAA", "Buy", 10, 100), Txn("AAA", "Buy", 5, 200),
      Txn("AAA", "Sell", 12, 150), Txn("AAA", "Sell", 10, 150),
      Txn("AAA", "Sell", 4, 120),
      Txn("BBB", "Buy", 5, 200), Txn("BBB", "Sell", 4, 120),
      Txn("CASH_DEPOSIT", "Buy", 10, 100) }

OtherPool ==
    { Txn("AAA", "Dividend", 1, 50), Txn("AAA", "Dividend_Withdrawal", 1, 20),
      Txn("COMMISSION", "Commission", 1, 7),
      Txn("CASH_DEPOSIT", "Cash_In", 1, 500),
      Txn("CASH_WITHDRAWAL", "Cash_Out", 1, 300) }

TxnPool == TradePool \cup OtherPool

Dated(t, d) == [date |-> d, symbol |-> t.symbol, action |-> t.action,
                quantity |-> t.quantity, price |-> t.price]

DateSorted(s) == \A i \in 1..(Len(s) - 1) : s[i].date <= s[i + 1].date

\* The ledgers an analyzer is constructed with: process_csv hands over a
\* ledger sorted by date.
LedgersUpTo(len) ==
    { s \in UNION { [1..n -> { Dated(t, d) : t \in TxnPool, d \in Dates }] : n \in 0..len } :
        DateSorted(s) }

---------------------------------------------------------------------------
(* Sequence helpers standing for DataFrame row selection *)

RECURSIVE Unique(_, _)
\* Series.unique(): the values of s in order of first appearance.
Unique(s, seenSoFar) ==
    IF s = <<>> THEN <<>>
    ELSE IF Head(s) \in seenSoFar THEN Unique(Tail(s), seenSoFar)
         ELSE <<Head(s)>> \o Unique(Tail(s), seenSoFar \cup {Head(s)})

Column(s, f) == [i \in 1..Len(s) |-> s[i][f]]

RECURSIVE InsertByDate(_, _)
InsertByDate(sorted, row) ==
    IF sorted = <<>> THEN <<row>>
    ELSE IF row.date < Head(sorted).date THEN <<row>> \o sorted
         ELSE <<Head(sorted)>> \o InsertByDate(Tail(sorted), row)

RECURSIVE SortByDate(_)
\* sort_values('date') on the few rows of one symbol: numpy sorts runs of at
\* most 16 elements by insertion, which keeps equal dates in their order.
SortByDate(s) ==
    IF s = <<>> THEN <<>>
    ELSE InsertByDate(SortByDate(SubSeq(s, 1, Len(s) - 1)), s[Len(s)])

---------------------------------------------------------------------------
(* PortfolioAnalyzer *)

get_unique_symbols(df) ==
    Unique(Column(SelectSeq(df, LAMBDA r : r.symbol \notin SentinelSymbols), "symbol"), {})

IsTrade(r) == r.action \in {"Buy", "Sell"}

\* symbol_transactions letting the trades of every symbol through.
symbol_transactions_any_symbol(df, symbol) ==
    SelectSeq(df, LAMBDA r : IsTrade(r))

\* symbol_transactions without the test of the action.
symbol_transactions_any_action(df, symbol) ==
    SelectSeq(df, LAMBDA r : r.symbol = symbol)

symbol_transactions(df, symbol) ==
    SelectSeq(df, LAMBDA r : r.symbol = symbol /\ IsTrade(r))


(* _calculate_realized_gains_losses: FIFO lot matching *)

Lot(q, p) == [quantity |-> q, price |-> p]

\* sell_from_lot selling a lot whole only when more than the lot is left to
\* sell: a lot sold exactly stays in the queue with quantity 0.
sell_from_lot_strict(st, sale_price) ==
    LET lot == Head(st.bought_lots) IN
    IF lot.quantity < st.remaining_to_sell
    THEN [bought_lots |-> Tail(st.bought_lots),
          remaining_to_sell |-> st.remaining_to_sell - lot.quantity,
          realized_gl |-> st.realized_gl + lot.quantity * (sale_price - lot.price)]
    ELSE [bought_lots |-> <<Lot(lot.quantity - st.remaining_to_sell, lot.price)>>
                            \o Tail(st.bought_lots),
          remaining_to_sell |-> 0,
          realized_gl |-> st.realized_gl + st.remaining_to_sell * (sale_price - lot.price)]

\* sell_from_lot taking the newest lot instead of the oldest.
sell_from_lot_newest(st, sale_price) ==
    LET n == Len(st.bought_lots)
        lot == st.bought_lots[n]
    IN  IF lot.quantity <= st.remaining_to_sell
        THEN [bought_lots |-> SubSeq(st.bought_lots, 1, n - 1),
              remaining_to_sell |-> st.remaining_to_sell - lot.quantity,
              realized_gl |-> st.realized_gl + lot.quantity * (sale_price - lot.price)]
        ELSE [bought_lots |-> SubSeq(st.bought_lots, 1, n - 1)
                                \o <<Lot(lot.quantity - st.remaining_to_sell, lot.price)>>,
              remaining_to_sell |-> 0,
              realized_gl |-> st.realized_gl + st.remaining_to_sell * (sale_price - lot.price)]

\* sell_from_lot counting the gain of a lot sold whole on the quantity still
\* to sell instead of on the lot's quantity.
sell_from_lot_counts_excess(st, sale_price) ==
    LET lot == Head(st.bought_lots) IN
    IF lot.quantity <= st.remaining_to_sell
    THEN [bought_lots |-> Tail(st.bought_lots),
          remaining_to_sell |-> st.remaining_to_sell - lot.quantity,
          realized_gl |-> st.realized_gl + st.remaining_to_sell * (sale_price - lot.price)]
    ELSE [bought_lots |-> <<Lot(lot.quantity - st.remaining_to_sell, lot.price)>>
                            \o Tail(st.bought_lots),
          remaining_to_sell |-> 0,
          realized_gl |-> st.realized_gl + st.remaining_to_sell * (sale_price - lot.price)]

\* One pass of the body of the while loop of a Sell.  st holds the locals
\* bought_lots, remaining_to_sell and realized_gl.
sell_from_lot(st, sale_price) ==
    LET lot == Head(st.bought_lots) IN
    IF lot.quantity <= st.remaining_to_sell
    THEN [bought_lots |-> Tail(st.bought_lots),
          remaining_to_sell |-> st.remaining_to_sell - lot.quantity,
          realized_gl |-> st.realized_gl + lot.quantity * (sale_price - lot.price)]
    ELSE [bought_lots |-> <<Lot(lot.quantity - st.remaining_to_sell, lot.price)>>
                            \o Tail(st.bought_lots),
          remaining_to_sell |-> 0,
          realized_gl |-> st.realized_gl + st.remaining_to_sell * (sale_price - lot.price)]

\* The guard of the while loop.
sell_continues(st) == st.remaining_to_sell > 0 /\ st.bought_lots # <<>>

\* sell_loop taking from one lot at most.
sell_loop_one_lot(st, sale_price) ==
    IF sell_continues(st) THEN sell_from_lot(st, sale_price) ELSE st

RECURSIVE sell_loop(_, _)
sell_loop(st, sale_price) ==
    IF sell_continues(st) THEN sell_loop(sell_from_lot(st, sale_price), sale_price) ELSE st

\* The body of the loop over one symbol's transactions.  st holds bought_lots
\* and realized_gl; remaining_to_sell is local to the Sell branch.
fifo_transaction(st, t) ==
    IF t.action = "Buy"
    THEN [bought_lots |-> Append(st.bought_lots, Lot(t.quantity, t.price)),
          realized_gl |-> st.realized_gl]
    ELSE IF t.action = "Sell"
    THEN LET r == sell_loop([bought_lots |-> st.bought_lots,
                             remaining_to_sell |-> t.quantity,
                             realized_gl |-> st.realized_gl], t.price)
         IN  [bought_lots |-> r.bought_lots, realized_gl |-> r.realized_gl]
    ELSE st

RECURSIVE fifo_rows(_, _)
fifo_rows(st, rows) ==
    IF rows = <<>> THEN st ELSE fifo_rows(fifo_transaction(st, Head(rows)), Tail(rows))

\* fifo_symbol with bought_lots kept on the analyzer: the loop starts from
\* the lots the last realized-gain computation left for the symbol.
fifo_symbol_keeping_lots(df, symbol, realized_gl) ==
    LET rows == symbol_transactions(df, symbol)
        earlier == {i \in 1..Len(calls) :
                       /\ calls[i].op = "realized_gains_losses"
                       /\ symbol \in DOMAIN calls[i].bought_lots}
        left == IF earlier = {} THEN <<>>
                ELSE calls[CHOOSE i \in earlier : \A j \in earlier : j <= i].bought_lots[symbol]
    IN  IF rows = <<>> THEN [bought_lots |-> <<>>, realized_gl |-> realized_gl]
        ELSE fifo_rows([bought_lots |-> left, realized_gl |-> realized_gl],
                       SortByDate(rows))

\* One pass of the loop over symbols: bought_lots starts empty for every
\* symbol, realized_gl runs on.
fifo_symbol(df, symbol, realized_gl) ==
    LET rows == symbol_transactions(df, symbol) IN
    IF rows = <<>> THEN [bought_lots |-> <<>>, realized_gl |-> realized_gl]
    ELSE fifo_rows([bought_lots |-> <<>>, realized_gl |-> realized_gl], SortByDate(rows))

RECURSIVE fifo_symbols(_, _, _, _)
\* acc.lots records, per symbol, bought_lots as the symbol's loop left it.
fifo_symbols(df, symbols, realized_gl, lots) ==
    IF symbols = <<>> THEN [realized_gl |-> realized_gl, bought_lots |-> lots]
    ELSE LET r == fifo_symbol(df, Head(symbols), realized_gl) IN
         fifo_symbols(df, Tail(symbols), r.realized_gl,
                      [x \in DOMAIN lots \cup {Head(symbols)} |->
                          IF x = Head(symbols) THEN r.bought_lots ELSE lots[x]])

calculate_realized_gains_losses(df) ==
    fifo_symbols(df, get_unique_symbols(df), 0, [x \in {} |-> <<>>])

---------------------------------------------------------------------------
(* calculate_current_holdings_without_prices: running average cost *)

\* holding_transaction taking the sale proceeds off total_cost.
holding_transaction_sale_price(st, t) ==
    IF t.action = "Buy"
    THEN [total_shares |-> st.total_shares + t.quantity,
          total_cost |-> RAdd(st.total_cost, RInt(t.quantity * t.price))]
    ELSE LET shares == st.total_shares - t.quantity IN
         IF shares > 0
         THEN [total_shares |-> shares,
               total_cost |-> RSub(st.total_cost, RInt(t.quantity * t.price))]
         ELSE [total_shares |-> shares, total_cost |-> st.total_cost]

\* The body of the loop over one symbol's transactions.  st holds the locals
\* total_shares and total_cost.
holding_transaction(st, t) ==
    IF t.action = "Buy"
    THEN [total_shares |-> st.total_shares + t.quantity,
          total_cost |-> RAdd(st.total_cost, RInt(t.quantity * t.price))]
    ELSE LET shares == st.total_shares - t.quantity IN
         IF shares > 0
         THEN LET avg_cost == IF shares + t.quantity > 0
                              THEN RDiv(st.total_cost, RInt(shares + t.quantity))
                              ELSE RZero
              IN  [total_shares |-> shares,
                   total_cost |-> RSub(st.total_cost, RMul(RInt(t.quantity), avg_cost))]
         ELSE [total_shares |-> shares, total_cost |-> st.total_cost]

RECURSIVE holding_rows(_, _)
holding_rows(st, rows) ==
    IF rows = <<>> THEN st ELSE holding_rows(holding_transaction(st, Head(rows)), Tail(rows))

\* total_shares and total_cost after the loop over the symbol's transactions.
holding_totals(df, symbol) ==
    holding_rows([total_shares |-> 0, total_cost |-> RZero], symbol_transactions(df, symbol))

\* holding_row with the placeholders left empty: no price, no value.
holding_row_unpriced(symbol, st) ==
    [symbol |-> symbol, quantity |-> st.total_shares,
     avg_cost |-> RDiv(st.total_cost, RInt(st.total_shares)),
     total_invested |-> st.total_cost, current_price |-> RZero,
     current_value |-> RZero, gain_loss |-> RZero, gain_loss_pct |-> RZero,
     allocation_pct |-> RZero]

\* The row appended for a symbol with total_shares > 0.
holding_row(symbol, st) ==
    LET avg_cost == RDiv(st.total_cost, RInt(st.total_shares)) IN
    [symbol |-> symbol, quantity |-> st.total_shares, avg_cost |-> avg_cost,
     total_invested |-> st.total_cost, current_price |-> avg_cost,
     current_value |-> st.total_cost, gain_loss |-> RZero, gain_loss_pct |-> RZero,
     allocation_pct |-> RZero]

\* holding_kept keeping a position of zero shares.
holding_kept_nonnegative(st) == st.total_shares >= 0

\* Whether the symbol gets a row.
holding_kept(st) == st.total_shares > 0

RECURSIVE holdings_list(_, _)
holdings_list(df, symbols) ==
    IF symbols = <<>> THEN <<>>
    ELSE LET symbol == Head(symbols)
             st == holding_totals(df, symbol)
             rest == holdings_list(df, Tail(symbols))
         IN  IF symbol_transactions(df, symbol) = <<>> THEN rest
             ELSE IF holding_kept(st) THEN <<holding_row(symbol, st)>> \o rest
             ELSE rest

RECURSIVE SumField(_, _)
SumField(rows, f) ==
    IF rows = <<>> THEN RZero ELSE RAdd(Head(rows)[f], SumField(Tail(rows), f))

\* The allocation_pct column as the function writes it.
with_allocation(rows) ==
    IF rows = <<>> THEN rows
    ELSE LET total_value == SumField(rows, "current_value") IN
         IF RPos(total_value)
         THEN [i \in 1..Len(rows) |->
                 [rows[i] EXCEPT !.allocation_pct =
                     RMul(RDiv(rows[i].current_value, total_value), RInt(100))]]
         ELSE rows

calculate_current_holdings_without_prices(df) ==
    with_allocation(holdings_list(df, get_unique_symbols(df)))

---------------------------------------------------------------------------
(* calculate_current_holdings: holdings priced by an external lookup *)

\* "N/A", the default of info.get(...), where a number is expected.
NA == [n |-> 1, d |-> 0]
\* The float nan.
NaN == [n |-> 0, d |-> 0]

\* What the two calls of fetch_yf_info_with_retry give for one ticker:
\* info is "raise" (the last attempt raised), "none" (no data) or "dict";
\* hist is "raise", "empty" or "close" (a history with a Close column).
Quote(p) == [info |-> "dict", currentPrice |-> RInt(p), market |-> "au_market",
             sector |-> "Energy", hist |-> "empty", close |-> NA]
LookupRaises == [info |-> "raise", currentPrice |-> NA, market |-> "N/A",
                 sector |-> "N/A", hist |-> "raise", close |-> NA]
LookupNoData == [info |-> "none", currentPrice |-> NA, market |-> "N/A",
                 sector |-> "N/A", hist |-> "empty", close |-> NA]
CloseOnly(p) == [info |-> "dict", currentPrice |-> NA, market |-> "N/A",
                 sector |-> "N/A", hist |-> "close", close |-> RInt(p)]
NoPriceNoSector == [info |-> "dict", currentPrice |-> NA, market |-> "au_market",
                    sector |-> "N/A", hist |-> "empty", close |-> NA]
NoPriceOnly == [info |-> "dict", currentPrice |-> NA, market |-> "au_market",
                sector |-> "Energy", hist |-> "raise", close |-> NA]

\* The lookup results the priced computation is run against.
LookupEnvs ==
    { [s \in EquitySymbols |-> IF s = "AAA" THEN Quote(150) ELSE Quote(250)],
      [s \in EquitySymbols |-> IF s = "AAA" THEN LookupRaises ELSE Quote(250)],
      [s \in EquitySymbols |-> IF s = "AAA" THEN CloseOnly(120) ELSE LookupNoData],
      [s \in EquitySymbols |-> IF s = "AAA" THEN Quote(0) ELSE NoPriceNoSector],
      [s \in EquitySymbols |-> IF s = "AAA" THEN Quote(150) ELSE NoPriceOnly] }

\* stock.TICKER_MAP is keyed by company names in title case.
TICKER_MAP == [k \in {"Afterpay Limited", "Altium Limited"} |->
                 IF k = "Afterpay Limited" THEN "APT.AX" ELSE "ALU.AX"]

ticker_of(symbol) == IF symbol \in DOMAIN TICKER_MAP THEN TICKER_MAP[symbol] ELSE symbol

\* current_price after the fallback to the latest close.
lookup_price(q) ==
    IF q.currentPrice = NA
    THEN IF q.hist = "close" THEN q.close ELSE NA
    ELSE q.currentPrice

\* The reason a symbol is skipped for, or "" when it is not skipped.
skip_reason(q) ==
    IF q.info = "raise" THEN "Error fetching data"
    ELSE IF q.info = "none" THEN "No data found"
    ELSE IF lookup_price(q) = NA /\ (q.market = "N/A" \/ q.sector = "N/A") THEN "Missing info"
    ELSE ""

RECURSIVE SumRows(_, _, _)
\* Sum of quantity (f = "quantity") or of quantity * price (f = "cost") over
\* the rows with the given action.
SumRows(rows, action, f) ==
    IF rows = <<>> THEN 0
    ELSE (IF Head(rows).action = action
          THEN (IF f = "quantity" THEN Head(rows).quantity
                ELSE Head(rows).quantity * Head(rows).price)
          ELSE 0) + SumRows(Tail(rows), action, f)

\* current_quantity of a symbol.
current_quantity(rows) == SumRows(rows, "Buy", "quantity") - SumRows(rows, "Sell", "quantity")

\* Whether the symbol gets a row.
priced_kept(rows) == current_quantity(rows) > 0

\* The row appended for a symbol with current_quantity > 0 and a numeric price.
priced_row(symbol, rows, q) ==
    LET total_bought == SumRows(rows, "Buy", "quantity")
        total_cost == SumRows(rows, "Buy", "cost")
        total_sold == SumRows(rows, "Sell", "quantity")
        quantity == current_quantity(rows)
        avg_cost == IF total_bought > 0
                    THEN RDiv(RSub(RInt(total_cost),
                                   RMul(Rat(total_sold, total_bought), RInt(total_cost))),
                              RInt(quantity))
                    ELSE RZero
        current_price == lookup_price(q)
        current_value == RMul(RInt(quantity), current_price)
        gain_loss == RSub(current_value, RMul(RInt(quantity), avg_cost))
        gain_loss_pct == IF RPos(avg_cost)
                         THEN RMul(RDiv(gain_loss, RMul(RInt(quantity), avg_cost)), RInt(100))
                         ELSE RZero
    IN  [symbol |-> symbol, ticker |-> ticker_of(symbol), quantity |-> quantity,
         avg_cost |-> avg_cost, current_price |-> current_price,
         current_value |-> current_value, gain_loss |-> gain_loss,
         gain_loss_pct |-> gain_loss_pct, market |-> q.market, sector |-> q.sector,
         allocation_pct |-> RZero]

\* One pass of the loop over symbols.  st holds holdings and skipped_stocks;
\* raised is set when the pass ends in an exception nothing catches
\* (a quantity multiplied by the string "N/A").
priced_symbol(st, df, symbol, q) ==
    LET rows == symbol_transactions(df, symbol) IN
    IF skip_reason(q) # ""
    THEN [st EXCEPT !.skipped_stocks =
             Append(@, [symbol |-> symbol, ticker |-> ticker_of(symbol),
                        reason |-> skip_reason(q)])]
    ELSE IF rows = <<>> THEN st
    ELSE IF ~priced_kept(rows) THEN st
    ELSE IF lookup_price(q) = NA THEN [st EXCEPT !.raised = TRUE]
    ELSE [st EXCEPT !.holdings = Append(@, priced_row(symbol, rows, q))]

RECURSIVE priced_symbols(_, _, _, _)
priced_symbols(st, df, symbols, lookups) ==
    IF symbols = <<>> \/ st.raised THEN st
    ELSE priced_symbols(priced_symbol(st, df, Head(symbols), lookups[Head(symbols)]),
                        df, Tail(symbols), lookups)

\* The allocation_pct column: no test of total_value here, 0 / 0 is nan.
priced_allocation(rows) ==
    IF rows = <<>> THEN rows
    ELSE LET total_value == SumField(rows, "current_value") IN
         [i \in 1..Len(rows) |->
            [rows[i] EXCEPT !.allocation_pct =
                IF total_value.n = 0 THEN NaN
                ELSE RMul(RDiv(rows[i].current_value, total_value), RInt(100))]]

calculate_current_holdings(df, lookups) ==
    LET st == priced_symbols([holdings |-> <<>>, skipped_stocks |-> <<>>, raised |-> FALSE],
                             df, get_unique_symbols(df), lookups)
    IN  IF st.raised
        THEN [raised |-> TRUE, holdings |-> <<>>, skipped_stocks |-> st.skipped_stocks]
        ELSE [raised |-> FALSE, holdings |-> priced_allocation(st.holdings),
              skipped_stocks |-> st.skipped_stocks]

---------------------------------------------------------------------------
(* The portfolio summaries *)

\* Lines 202-225, given the holdings table and the realized gain.  The
\* realized gain is not computed when the table is empty.
summary_without_prices(holdings_df, realized_gain_loss) ==
    IF holdings_df = <<>>
    THEN [total_invested |-> RZero, current_value |-> RZero, total_gain_loss |-> RZero,
          total_gain_loss_pct |-> RZero, realized_gain_loss |-> RZero,
          unrealized_gain_loss |-> RZero, num_positions |-> 0]
    ELSE [total_invested |-> SumField(holdings_df, "total_invested"),
          current_value |-> SumField(holdings_df, "current_value"),
          total_gain_loss |-> RZero, total_gain_loss_pct |-> RZero,
          realized_gain_loss |-> RInt(realized_gain_loss),
          unrealized_gain_loss |-> RZero, num_positions |-> Len(holdings_df)]

calculate_portfolio_summary_without_prices(df) ==
    summary_without_prices(calculate_current_holdings_without_prices(df),
                           calculate_realized_gains_losses(df).realized_gl)

\* Lines 232-253, given what calculate_current_holdings returned or raised.
\* total_invested is summed over every Buy row of the ledger.
summary_with_prices(df, h, realized_gain_loss) ==
    IF h.raised THEN [raised |-> TRUE, summary |-> <<>>]
    ELSE [raised |-> FALSE,
          summary |->
              [total_invested |-> RInt(SumRows(df, "Buy", "cost")),
               current_value |-> SumField(h.holdings, "current_value"),
               realized_gain_loss |-> RInt(realized_gain_loss),
               unrealized_gain_loss |-> SumField(h.holdings, "gain_loss"),
               total_gain_loss |-> RAdd(RInt(realized_gain_loss),
                                        SumField(h.holdings, "gain_loss"))]]

\* calculate_portfolio_summary(current_prices); the argument is not read.
calculate_portfolio_summary(df, lookups) ==
    summary_with_prices(df, calculate_current_holdings(df, lookups),
                        calculate_realized_gains_losses(df).realized_gl)

---------------------------------------------------------------------------
(* calculate_dividend_summary *)

IsDividendRow(r) == r.action \in {"Dividend", "Dividend_Withdrawal"}

RECURSIVE SumPrice(_, _)
SumPrice(rows, action) ==
    IF rows = <<>> THEN 0
    ELSE (IF Head(rows).action = action THEN Head(rows).price ELSE 0)
         + SumPrice(Tail(rows), action)

\* dividend_count counting the withdrawals too.
dividend_count_all(rows) == Len(rows)

\* len(dividend_transactions[action == 'Dividend'])
dividend_count(rows) == Len(SelectSeq(rows, LAMBDA r : r.action = "Dividend"))

\* The signed amount of a row of dividend_history.
dividend_amount(r) == IF r.action = "Dividend" THEN r.price ELSE -r.price

RECURSIVE InsertByDateDesc(_, _)
InsertByDateDesc(sorted, row) ==
    IF sorted = <<>> THEN <<row>>
    ELSE IF row.date > Head(sorted).date THEN <<row>> \o sorted
         ELSE <<Head(sorted)>> \o InsertByDateDesc(Tail(sorted), row)

RECURSIVE SortByDateDesc(_)
\* sort_values('date', ascending=False)
SortByDateDesc(s) ==
    IF s = <<>> THEN <<>>
    ELSE InsertByDateDesc(SortByDateDesc(SubSeq(s, 1, Len(s) - 1)), s[Len(s)])

calculate_dividend_summary(df) ==
    LET dividend_transactions == SelectSeq(df, IsDividendRow) IN
    IF dividend_transactions = <<>>
    THEN [total_dividends |-> 0, dividend_count |-> 0, dividend_history |-> <<>>]
    ELSE [total_dividends |-> SumPrice(dividend_transactions, "Dividend")
                              - SumPrice(dividend_transactions, "Dividend_Withdrawal"),
          dividend_count |-> dividend_count(dividend_transactions),
          dividend_history |->
              SortByDateDesc([i \in 1..Len(dividend_transactions) |->
                  [date |-> dividend_transactions[i].date,
                   symbol |-> dividend_transactions[i].symbol,
                   amount |-> dividend_amount(dividend_transactions[i])]])]

---------------------------------------------------------------------------
(* Text: Python str operations on sequences of one-character strings *)

Whitespace == {" ", "\t"}

SetMin(S) == CHOOSE i \in S : \A j \in S : i <= j
SetMax(S) == CHOOSE i \in S : \A j \in S : j <= i

\* s from the first to the last of the positions given.
sub_between(s, inked) ==
    IF inked = {} THEN <<>> ELSE SubSeq(s, SetMin(inked), SetMax(inked))

\* s.strip()
str_strip(s) == sub_between(s, {i \in 1..Len(s) : s[i] \notin Whitespace})

\* Positions where sub starts in s.
Occurrences(s, sub) ==
    {i \in 1..(Len(s) - Len(sub) + 1) : SubSeq(s, i, i + Len(sub) - 1) = sub}

\* sub in s
str_contains(s, sub) == Occurrences(s, sub) # {}

\* s.split(sep): the parts between the non-overlapping occurrences of sep,
\* taken from the left.
RECURSIVE str_split(_, _)
str_split(s, sep) ==
    IF ~str_contains(s, sep) THEN <<s>>
    ELSE LET i == SetMin(Occurrences(s, sep))
         IN  <<SubSeq(s, 1, i - 1)>> \o str_split(SubSeq(s, i + Len(sep), Len(s)), sep)

\* s.split(sep, 1) of a string that contains sep: what is left and right of
\* the first occurrence.
str_split_once(s, sep) ==
    LET i == SetMin(Occurrences(s, sep))
    IN  <<SubSeq(s, 1, i - 1), SubSeq(s, i + Len(sep), Len(s))>>

\* s.split(): the runs of non-whitespace characters.
RECURSIVE str_split_whitespace(_)
str_split_whitespace(s) ==
    LET inked == {i \in 1..Len(s) : s[i] \notin Whitespace}
    IN  IF inked = {} THEN <<>>
        ELSE LET first == SetMin(inked)
                 gaps == {i \in first..Len(s) : s[i] \in Whitespace}
                 stop == IF gaps = {} THEN Len(s) + 1 ELSE SetMin(gaps)
             IN  <<SubSeq(s, first, stop - 1)>>
                 \o str_split_whitespace(SubSeq(s, stop, Len(s)))

\* s.replace(c, '') for a one-character c.
str_remove(s, c) == SelectSeq(s, LAMBDA x : x # c)

LowerCase == <<"a", "b", "c", "d", "e", "f", "g", "h", "i", "j", "k", "l", "m",
               "n", "o", "p", "q", "r", "s", "t", "u", "v", "w", "x", "y", "z">>
UpperCase == <<"A", "B", "C", "D", "E", "F", "G", "H", "I", "J", "K", "L", "M",
               "N", "O", "P", "Q", "R", "S", "T", "U", "V", "W", "X", "Y", "Z">>

char_upper(c) ==
    IF \E i \in 1..Len(LowerCase) : LowerCase[i] = c
    THEN UpperCase[CHOOSE i \in 1..Len(LowerCase) : LowerCase[i] = c]
    ELSE c

\* s.upper()
str_upper(s) == [i \in 1..Len(s) |-> char_upper(s[i])]

DigitChars == <<"0", "1", "2", "3", "4", "5", "6", "7", "8", "9">>

IsDigit(c) == \E i \in 1..Len(DigitChars) : DigitChars[i] = c
DigitValue(c) == (CHOOSE i \in 1..Len(DigitChars) : DigitChars[i] = c) - 1

\* The number a string of digits writes in base ten.
RECURSIVE digits_value(_)
digits_value(s) ==
    IF s = <<>> THEN 0
    ELSE 10 * digits_value(SubSeq(s, 1, Len(s) - 1)) + DigitValue(s[Len(s)])

RECURSIVE pow10(_)
pow10(k) == IF k = 0 THEN 1 ELSE 10 * pow10(k - 1)

\* A leading sign taken off: [sign, rest].
take_sign(s) ==
    IF s # <<>> /\ s[1] \in {"+", "-"}
    THEN [sign |-> IF s[1] = "-" THEN -1 ELSE 1, rest |-> Tail(s)]
    ELSE [sign |-> 1, rest |-> s]

\* Digits only, and at least one.
all_digits(s) == s # <<>> /\ \A i \in 1..Len(s) : IsDigit(s[i])

int_signed(t) ==
    IF all_digits(t.rest)
    THEN [ok |-> TRUE, value |-> t.sign * digits_value(t.rest)]
    ELSE [ok |-> FALSE, value |-> 0]

\* int(s): surrounding whitespace, an optional sign, then digits only.
\* ok = FALSE stands for the ValueError.
int_of(s) == int_signed(take_sign(str_strip(s)))

\* The digits of a decimal text with the places after its point.
decimal_value(sign, digits, decimals) ==
    IF all_digits(digits)
    THEN [ok |-> TRUE, value |-> Rat(sign * digits_value(digits), pow10(decimals))]
    ELSE [ok |-> FALSE, value |-> RZero]

float_signed(t) ==
    LET dots == {i \in 1..Len(t.rest) : t.rest[i] = "."}
    IN  IF Cardinality(dots) > 1 THEN [ok |-> FALSE, value |-> RZero]
        ELSE decimal_value(t.sign, str_remove(t.rest, "."),
                           IF dots = {} THEN 0 ELSE Len(t.rest) - SetMin(dots))

\* float(s) for decimal text: surrounding whitespace, an optional sign,
\* digits with at most one decimal point and at least one digit.  Exponents
\* and the words inf and nan are not among the texts of the model.
\* ok = FALSE stands for the ValueError.
float_of(s) == float_signed(take_sign(str_strip(s)))

---------------------------------------------------------------------------
(* DataProcessor: raw rows *)

\* A cell of the uploaded table: null (NaN), text, or a number.
Null == [k |-> "null", s |-> <<>>, v |-> RZero]
Text(s) == [k |-> "str", s |-> s, v |-> RZero]
Number(v) == [k |-> "num", s |-> <<>>, v |-> v]

\* pd.isna(cell)
isna(cell) == cell.k = "null"

\* pd.isna(cell) or cell == ''
null_or_empty(cell) == isna(cell) \/ (cell.k = "str" /\ cell.s = <<>>)

RawRow(date, summary, market, type, pl) ==
    [TextDate |-> date, Summary |-> summary, MarketName |-> market,
     TransactionType |-> type, PLAmount |-> pl]

TypeDEPO == <<"D", "E", "P", "O">>
TypeWITH == <<"W", "I", "T", "H">>
CardPayment == <<"C", "a", "r", "d", " ", "p", "a", "y", "m", "e", "n", "t">>
ReturnedToCard == <<"R", "e", "t", "u", "r", "n", "e", "d", " ", "t", "o",
                    " ", "c", "a", "r", "d">>
DIVIDEND == <<"D", "I", "V", "I", "D", "E", "N", "D">>
COMM == <<"C", "O", "M", "M">>
CONS == <<"C", "O", "N", "S">>
ShareDealingCommissions == <<"S", "h", "a", "r", "e", " ", "D", "e", "a",
                             "l", "i", "n", "g", " ", "C", "o", "m", "m",
                             "i", "s", "s", "i", "o", "n", "s">>
CASH_DEPOSIT == <<"C", "A", "S", "H", "_", "D", "E", "P", "O", "S", "I", "T">>
CASH_WITHDRAWAL == <<"C", "A", "S", "H", "_", "W", "I", "T", "H", "D", "R",
                     "A", "W", "A", "L">>
COMMISSION == <<"C", "O", "M", "M", "I", "S", "S", "I", "O", "N">>
UNKNOWN_STOCK == <<"U", "N", "K", "N", "O", "W", "N", "_", "S", "T", "O",
                   "C", "K">>

\* A row of standard_transactions.
StandardTransaction(date, symbol, action, quantity, price) ==
    [date |-> date, symbol |-> symbol, action |-> action,
     quantity |-> quantity, price |-> price]

\* What processing one row gives: the transaction appended, or the error
\* raised (kind names the raise statement).
NoTransaction == StandardTransaction(<<>>, <<>>, "", 0, RZero)
Appended(t) == [ok |-> TRUE, kind |-> "", detail |-> "", txn |-> t]
Raised(kind, detail) == [ok |-> FALSE, kind |-> kind, detail |-> detail, txn |-> NoTransaction]

\* float(pl_amount) of the raw cell.
float_raw(pl) == IF pl.k = "num" THEN [ok |-> TRUE, value |-> pl.v] ELSE float_of(pl.s)

\* Lines 119-128: the PL Amount as a float; text loses its surrounding
\* whitespace, its commas and its dollar signs first.
convert_pl_amount(pl) ==
    IF pl.k = "str"
    THEN float_of(str_remove(str_remove(str_strip(pl.s), ","), "$"))
    ELSE [ok |-> TRUE, value |-> pl.v]

tolerance == Rat(2, 100)

---------------------------------------------------------------------------
(* DataProcessor._parse_cons_transaction *)

ConsParsed(stock_name, quantity, unit_price, warned) ==
    [ok |-> TRUE, detail |-> "", stock_name |-> stock_name,
     quantity |-> quantity, unit_price |-> unit_price, warned |-> warned]
ConsFailed(detail) ==
    [ok |-> FALSE, detail |-> detail, stock_name |-> <<>>,
     quantity |-> 0, unit_price |-> RZero, warned |-> FALSE]

\* The price divided by 100 only when it is below 1000.
scale_price_by_magnitude(price_value) ==
    IF RLt(price_value, RInt(1000)) THEN RDiv(price_value, RInt(100)) ELSE price_value
\* price_value / 100.0
scale_price(price_value) == RDiv(price_value, RInt(100))

\* The text before any space: transaction_details.split()[0] when the
\* details hold a space, the details themselves otherwise.
quantity_price_part(transaction_details) ==
    IF str_contains(transaction_details, <<" ">>)
    THEN str_split_whitespace(transaction_details)[1]
    ELSE transaction_details

\* abs(calculated_total - pl_amount_abs) > tolerance
total_mismatch(calculated_total, pl_amount_abs) ==
    RLt(tolerance, RAbs(RSub(calculated_total, pl_amount_abs)))

\* reconcile never replacing the parsed price.
reconcile_keeping_parsed(stock_name, quantity, unit_price, pl_amount) ==
    ConsParsed(stock_name, quantity, unit_price, FALSE)
\* Lines 288-302: the unit price kept when quantity x unit_price is within
\* the tolerance of |PL Amount|, replaced by |PL Amount| / quantity (with a
\* warning) otherwise.
reconcile(stock_name, quantity, unit_price, pl_amount) ==
    IF total_mismatch(RMul(RInt(quantity), unit_price), RAbs(pl_amount))
    THEN ConsParsed(stock_name, quantity, RDiv(RAbs(pl_amount), RInt(quantity)), TRUE)
    ELSE ConsParsed(stock_name, quantity, unit_price, FALSE)

\* Lines 282-283 and 288-302, the price scaled.
check_price(stock_name, quantity, unit_price, pl_amount) ==
    IF ~RPos(unit_price) THEN ConsFailed("invalid_price")
    ELSE reconcile(stock_name, quantity, unit_price, pl_amount)

\* Lines 268-286, quantity and price_value being what int() and float() gave.
check_quantity_price(stock_name, quantity, price_value, pl_amount) ==
    IF ~quantity.ok \/ quantity.value <= 0 THEN ConsFailed("invalid_quantity")
    ELSE IF ~price_value.ok THEN ConsFailed("invalid_price")
    ELSE check_price(stock_name, quantity.value, scale_price(price_value.value), pl_amount)

\* Lines 265-286: quantity_str, price_str = quantity_price_part.split('@', 1)
split_quantity_price(stock_name, halves, pl_amount) ==
    check_quantity_price(stock_name, int_of(str_strip(halves[1])),
                         float_of(str_strip(halves[2])), pl_amount)

\* Lines 261-286.
parse_quantity_price(stock_name, part, pl_amount) ==
    IF ~str_contains(part, <<"@">>) THEN ConsFailed("invalid_quantity_price")
    ELSE split_quantity_price(stock_name, str_split_once(part, <<"@">>), pl_amount)

\* Lines 250-286.
parse_details(stock_name, transaction_details, pl_amount) ==
    IF stock_name = <<>> THEN ConsFailed("empty_stock_name")
    ELSE IF ~str_contains(transaction_details, <<"@">>) THEN ConsFailed("missing_at")
    ELSE parse_quantity_price(stock_name, quantity_price_part(transaction_details),
                              pl_amount)

\* Lines 244-286, parts being market_name.split('CONS').
parse_parts(parts, pl_amount) ==
    IF Len(parts) # 2 THEN ConsFailed("not_one_cons")
    ELSE parse_details(str_strip(parts[1]), str_strip(parts[2]), pl_amount)

parse_cons_transaction(market_name, pl_amount) ==
    parse_parts(str_split(market_name, CONS), pl_amount)

---------------------------------------------------------------------------
(* DataProcessor._transform_to_standard_format *)

\* Line 107, amount being what float(pl_amount) gave.
summary_for_amount(amount) ==
    IF ~amount.ok THEN [ok |-> FALSE, s |-> <<>>]
    ELSE IF RLt(amount.value, RZero) THEN [ok |-> TRUE, s |-> ShareDealingCommissions]
    ELSE [ok |-> TRUE, s |-> <<>>]

\* Lines 106-112: the Summary the rules see.  An absent Summary on a row
\* whose raw Transaction type is WITH and whose PL Amount is negative becomes
\* 'Share Dealing Commissions'; float() of the raw PL Amount can raise here.
summary_default(row) ==
    IF null_or_empty(row.Summary)
    THEN IF row.TransactionType.s = TypeWITH
         THEN summary_for_amount(float_raw(row.PLAmount))
         ELSE [ok |-> TRUE, s |-> <<>>]
    ELSE [ok |-> TRUE, s |-> str_strip(row.Summary.s)]

\* Any Transaction type let through.
valid_transaction_type_any(transaction_type) == TRUE
\* transaction_type in ['DEPO', 'WITH']
valid_transaction_type(transaction_type) == transaction_type \in {TypeDEPO, TypeWITH}

\* Lines 158-179, stock_name being the trimmed text before DIVIDEND.
dividend_row(text_date, stock_name, pl_amount) ==
    IF stock_name = <<>> THEN Raised("dividend_no_stock_name", "")
    ELSE IF RLt(pl_amount, RZero)
    THEN Appended(StandardTransaction(text_date, stock_name,
                                      "Dividend_Withdrawal", 1, RAbs(pl_amount)))
    ELSE Appended(StandardTransaction(text_date, stock_name,
                                      "Dividend", 1, RAbs(pl_amount)))

\* Lines 193-204, stock_info being what _parse_cons_transaction gave.
cons_row(text_date, action, stock_info) ==
    IF ~stock_info.ok THEN Raised("cons_parse", stock_info.detail)
    ELSE Appended(StandardTransaction(text_date, stock_info.stock_name, action,
                                      stock_info.quantity, stock_info.unit_price))

\* Line 219.
withdrawal_symbol(stock_name) == IF stock_name # <<>> THEN stock_name ELSE UNKNOWN_STOCK

\* classify with the CONS rule tried first.
classify_cons_first(text_date, summary, market_name, transaction_type, pl_amount) ==
    IF str_contains(market_name, CONS)
    THEN cons_row(text_date, IF transaction_type = TypeWITH THEN "Buy" ELSE "Sell",
                  parse_cons_transaction(market_name, pl_amount))
    ELSE IF str_contains(market_name, CardPayment)
    THEN Appended(StandardTransaction(text_date, CASH_DEPOSIT, "Cash_In", 1, RAbs(pl_amount)))
    ELSE IF str_contains(market_name, ReturnedToCard)
    THEN Appended(StandardTransaction(text_date, CASH_WITHDRAWAL, "Cash_Out", 1, RAbs(pl_amount)))
    ELSE IF str_contains(market_name, DIVIDEND)
    THEN dividend_row(text_date, str_strip(str_split(market_name, DIVIDEND)[1]), pl_amount)
    ELSE IF str_contains(market_name, COMM)
    THEN Appended(StandardTransaction(text_date, COMMISSION, "Commission", 1, RAbs(pl_amount)))
    ELSE IF \/ summary = ShareDealingCommissions
            \/ (market_name = <<>> /\ transaction_type = TypeWITH /\ RLt(pl_amount, RZero))
    THEN Appended(StandardTransaction(text_date, COMMISSION, "Commission", 1, RAbs(pl_amount)))
    ELSE IF RLt(pl_amount, RZero) /\ str_upper(summary) = DIVIDEND
    THEN Appended(StandardTransaction(text_date, withdrawal_symbol(str_strip(market_name)),
                                      "Dividend_Withdrawal", 1, RAbs(pl_amount)))
    ELSE Raised("unknown_format", "")

\* Lines 134-231: the rules, in the order the code tries them.
classify(text_date, summary, market_name, transaction_type, pl_amount) ==
    IF str_contains(market_name, CardPayment)
    THEN Appended(StandardTransaction(text_date, CASH_DEPOSIT, "Cash_In", 1, RAbs(pl_amount)))
    ELSE IF str_contains(market_name, ReturnedToCard)
    THEN Appended(StandardTransaction(text_date, CASH_WITHDRAWAL, "Cash_Out", 1, RAbs(pl_amount)))
    ELSE IF str_contains(market_name, DIVIDEND)
    THEN dividend_row(text_date, str_strip(str_split(market_name, DIVIDEND)[1]), pl_amount)
    ELSE IF str_contains(market_name, COMM)
    THEN Appended(StandardTransaction(text_date, COMMISSION, "Commission", 1, RAbs(pl_amount)))
    ELSE IF str_contains(market_name, CONS)
    THEN cons_row(text_date, IF transaction_type = TypeWITH THEN "Buy" ELSE "Sell",
                  parse_cons_transaction(market_name, pl_amount))
    ELSE IF \/ summary = ShareDealingCommissions
            \/ (market_name = <<>> /\ transaction_type = TypeWITH /\ RLt(pl_amount, RZero))
    THEN Appended(StandardTransaction(text_date, COMMISSION, "Commission", 1, RAbs(pl_amount)))
    ELSE IF RLt(pl_amount, RZero) /\ str_upper(summary) = DIVIDEND
    THEN Appended(StandardTransaction(text_date, withdrawal_symbol(str_strip(market_name)),
                                      "Dividend_Withdrawal", 1, RAbs(pl_amount)))
    ELSE Raised("unknown_format", "")

\* Lines 106-231, the fields trimmed and converted.
convert_and_classify(text_date, summary, market_name, transaction_type, pl_amount) ==
    IF ~summary.ok THEN Raised("summary_default_float", "")
    ELSE IF ~pl_amount.ok THEN Raised("pl_amount_conversion", "")
    ELSE IF ~valid_transaction_type(transaction_type)
    THEN Raised("invalid_transaction_type", "")
    ELSE classify(text_date, summary.s, market_name, transaction_type, pl_amount.value)

\* Lines 86-235: one pass of the loop body.
transform_row(row) ==
    IF null_or_empty(row.TransactionType) THEN Raised("null_transaction_type", "")
    ELSE IF null_or_empty(row.MarketName) THEN Raised("null_market_name", "")
    ELSE IF isna(row.PLAmount) THEN Raised("null_pl_amount", "")
    ELSE IF null_or_empty(row.TextDate) THEN Raised("null_text_date", "")
    ELSE convert_and_classify(str_strip(row.TextDate.s), summary_default(row),
                              str_strip(row.MarketName.s),
                              str_strip(row.TransactionType.s),
                              convert_pl_amount(row.PLAmount))

NoError == [row |-> 0, kind |-> "", detail |-> ""]
RowError(row, r) == [row |-> row, kind |-> r.kind, detail |-> r.detail]
BatchError(kind) == [row |-> 0, kind |-> kind, detail |-> ""]

RECURSIVE transform_rows(_, _, _)

\* The loop with a row that raises left out instead.
after_row_skipping(df, index, standard_transactions, r) ==
    IF ~r.ok
    THEN transform_rows(df, index + 1, standard_transactions)
    ELSE transform_rows(df, index + 1, Append(standard_transactions, r.txn))
\* The end of one pass, r being what the row gave: the error re-raised with
\* the row's 1-based number (index + 1), or the transaction appended and the
\* next row taken.
after_row(df, index, standard_transactions, r) ==
    IF ~r.ok
    THEN [failed |-> TRUE, error |-> RowError(index, r), transactions |-> <<>>]
    ELSE transform_rows(df, index + 1, Append(standard_transactions, r.txn))

\* Lines 85-237: the loop over the rows from row index on.
transform_rows(df, index, standard_transactions) ==
    IF index > Len(df)
    THEN [failed |-> FALSE, error |-> NoError, transactions |-> standard_transactions]
    ELSE after_row(df, index, standard_transactions, transform_row(df[index]))

\* standard_transactions kept from the run before instead of starting empty.
transform_to_standard_format_appending(df) ==
    transform_rows(df, 1,
                   IF calls # <<>> /\ calls[Len(calls)].op = "transform_to_standard_format"
                   THEN calls[Len(calls)].transactions ELSE <<>>)
\* Line 83 and the loop: standard_transactions starts empty on every run.
transform_to_standard_format(df) == transform_rows(df, 1, <<>>)

---------------------------------------------------------------------------
(* DataProcessor._clean_data_types, _validate_data_values, process_csv *)

NaT == [nat |-> TRUE, ord |-> 0]
Date(y, m, d) == [nat |-> FALSE, ord |-> (y * 100 + m) * 100 + d]

DaysIn(m) == IF m = 2 THEN 28 ELSE IF m \in {4, 6, 9, 11} THEN 30 ELSE 31

\* pd.to_datetime of one text.  The empty text gives NaT; a text written
\* YYYY-MM-DD gives its date; the other texts of the model fail.
\* ok = FALSE stands for the exception.
to_datetime(s) ==
    IF s = <<>> THEN [ok |-> TRUE, date |-> NaT]
    ELSE IF /\ Len(s) = 10
            /\ s[5] = "-" /\ s[8] = "-"
            /\ \A i \in {1, 2, 3, 4, 6, 7, 9, 10} : IsDigit(s[i])
         THEN LET y == digits_value(SubSeq(s, 1, 4))
                  m == digits_value(SubSeq(s, 6, 7))
                  d == digits_value(SubSeq(s, 9, 10))
              IN  IF m \in 1..12 /\ d \in 1..DaysIn(m)
                  THEN [ok |-> TRUE, date |-> Date(y, m, d)]
                  ELSE [ok |-> FALSE, date |-> NaT]
         ELSE [ok |-> FALSE, date |-> NaT]

\* Lines 323-346 for one row: the symbol trimmed and upper-cased.  The
\* actions the transform writes are their own title case, and quantity and
\* price are numbers already, which to_numeric gives back unchanged.
clean_row(t, date) ==
    [date |-> date, symbol |-> str_upper(str_strip(t.symbol)), action |-> t.action,
     quantity |-> t.quantity, price |-> t.price]

\* Lines 315-320.
dates_convert(rows) == \A i \in 1..Len(rows) : to_datetime(rows[i].date).ok

clean_data_types(rows) ==
    [i \in 1..Len(rows) |-> clean_row(rows[i], to_datetime(rows[i].date).date)]

\* a sorts before b in sort_values('date'): NaT goes last.
date_before(a, b) == ~a.nat /\ (b.nat \/ a.ord < b.ord)

RECURSIVE insert_by_date(_, _)
insert_by_date(sorted, t) ==
    IF sorted = <<>> THEN <<t>>
    ELSE IF date_before(t.date, sorted[Len(sorted)].date)
    THEN Append(insert_by_date(SubSeq(sorted, 1, Len(sorted) - 1), t), sorted[Len(sorted)])
    ELSE Append(sorted, t)

\* sort_values('date'), rows of one date kept in their order.
RECURSIVE sort_values_date(_)
sort_values_date(rows) ==
    IF rows = <<>> THEN <<>>
    ELSE insert_by_date(sort_values_date(SubSeq(rows, 1, Len(rows) - 1)), rows[Len(rows)])

\* Lines 375-393: the dates converted once more and the rows sorted.
validate_data_values(rows) == sort_values_date(rows)

\* Lines 71-79, t being what the transform returned or raised.
clean_and_sort(t) ==
    IF t.failed THEN [error |-> t.error, transactions |-> <<>>]
    ELSE IF ~dates_convert(t.transactions)
    THEN [error |-> BatchError("date_conversion"), transactions |-> <<>>]
    ELSE [error |-> NoError,
          transactions |->
              sort_values_date(validate_data_values(clean_data_types(t.transactions)))]

\* _validate_and_clean_data on a table that has the required columns.
validate_and_clean_data(df) ==
    IF df = <<>> THEN [error |-> BatchError("empty_csv"), transactions |-> <<>>]
    ELSE clean_and_sort(transform_to_standard_format(df))

\* process_csv: the exception is caught, its message shown, and an empty
\* table returned.
process_csv(df) == validate_and_clean_data(df)

\* The dates in the order sort_values('date') leaves them, NaT last.
date_ascending(rows) ==
    \A i \in 1..(Len(rows) - 1) : ~date_before(rows[i + 1].date, rows[i].date)

\* sort_values('date') on a table of any length.  The call leaves kind at
\* pandas' default 'quicksort', which gives the dates ascending and does not
\* say which of two rows of one date comes first: up to 17 rows are sorted
\* by insertion and keep their order (sort_values_date), a longer table is
\* partitioned around a pivot, which moves rows of the pivot's date past one
\* another.  The rows here are rows of such a table.
sort_values_date_quicksort(rows) ==
    {s \in {[i \in 1..Len(rows) |-> rows[p[i]]] : p \in Permutations(1..Len(rows))} :
        date_ascending(s)}

\* Lines 71-79 on a table of any length, t being what the transform
\* returned or raised: both sorts (lines 389 and 77) are quicksorts.
clean_and_sort_quicksort(t) ==
    IF t.failed \/ ~dates_convert(t.transactions) THEN {clean_and_sort(t)}
    ELSE {[error |-> NoError, transactions |-> s] :
            s \in UNION {sort_values_date_quicksort(v) :
                            v \in sort_values_date_quicksort(
                                      clean_data_types(t.transactions))}}

\* _validate_and_clean_data on a table of any length: every ledger the
\* call can return.
validate_and_clean_data_quicksort(df) ==
    IF df = <<>> THEN {[error |-> BatchError("empty_csv"), transactions |-> <<>>]}
    ELSE clean_and_sort_quicksort(transform_to_standard_format(df))

---------------------------------------------------------------------------
(* StockDataFetcher.get_current_prices *)

\* Seconds a cached price stays usable.
cache_duration == 300

\* The fetcher as __init__ leaves it: both caches empty.
StockDataFetcher == [price_cache |-> <<>>, cache_timestamp |-> <<>>]

\* d[k] = v
Put(d, k, v) == [x \in DOMAIN d \cup {k} |-> IF x = k THEN v ELSE d[x]]

\* What ticker.history(period="1d") gives for one symbol: it raises, or
\* is empty, or has a last Close.
HistoryRaises == [hist |-> "raise", close |-> 0]
HistoryEmpty == [hist |-> "empty", close |-> 0]
LastClose(p) == [hist |-> "close", close |-> p]

\* What the price source does during one call: tickers is "raise" when
\* yf.Tickers(...) raises; other is TRUE when a statement of the outer try
\* that no inner handler covers raises; history is per symbol.
PriceEnvs(n) ==
    [tickers : {"ok", "raise"}, other : {FALSE},
     history : [EquitySymbols -> {HistoryRaises, HistoryEmpty, LastClose(150 + 10 * n)}]]
    \cup
    [tickers : {"ok"}, other : {TRUE},
     history : [EquitySymbols -> {HistoryRaises, HistoryEmpty, LastClose(150 + 10 * n)}]]

\* is_cached without the age of the entry.
is_cached_forever(self, symbol, current_time) ==
    /\ symbol \in DOMAIN self.price_cache
    /\ symbol \in DOMAIN self.cache_timestamp

\* Lines 31-33.
is_cached(self, symbol, current_time) ==
    /\ symbol \in DOMAIN self.price_cache
    /\ symbol \in DOMAIN self.cache_timestamp
    /\ current_time - self.cache_timestamp[symbol] < cache_duration

\* Lines 30-37: the prices taken from the cache.
RECURSIVE cached_prices(_, _, _, _)
cached_prices(self, symbols, current_time, prices) ==
    IF symbols = <<>> THEN prices
    ELSE cached_prices(self, Tail(symbols), current_time,
                       IF is_cached(self, Head(symbols), current_time)
                       THEN Put(prices, Head(symbols), self.price_cache[Head(symbols)])
                       ELSE prices)

fresh_symbols(self, symbols, current_time) ==
    SelectSeq(symbols, LAMBDA symbol : ~is_cached(self, symbol, current_time))

\* _fetch_individual_price
fetch_individual_price(h) == IF h.hist = "close" THEN h.close ELSE 0

\* fetch_symbol writing 0.0 over the prices found so far when one symbol
\* fails.
fetch_symbol_failing_all(st, symbol, h, current_time) ==
    IF h.hist = "close"
    THEN [prices |-> Put(st.prices, symbol, h.close),
          self |-> [price_cache |-> Put(st.self.price_cache, symbol, h.close),
                    cache_timestamp |-> Put(st.self.cache_timestamp, symbol, current_time)]]
    ELSE [st EXCEPT !.prices = [x \in DOMAIN st.prices \cup {symbol} |-> 0]]

\* Lines 53-70: one symbol of the batch.
fetch_symbol(st, symbol, h, current_time) ==
    IF h.hist = "close"
    THEN [prices |-> Put(st.prices, symbol, h.close),
          self |-> [price_cache |-> Put(st.self.price_cache, symbol, h.close),
                    cache_timestamp |-> Put(st.self.cache_timestamp, symbol, current_time)]]
    ELSE [st EXCEPT !.prices = Put(@, symbol, 0)]

\* Lines 52-70.
RECURSIVE fetch_symbols(_, _, _, _)
fetch_symbols(st, symbols, env, current_time) ==
    IF symbols = <<>> THEN st
    ELSE fetch_symbols(fetch_symbol(st, Head(symbols), env.history[Head(symbols)],
                                    current_time),
                       Tail(symbols), env, current_time)

\* Lines 75-76: the fallback after the batch failed; nothing is cached.
RECURSIVE fetch_individually(_, _, _)
fetch_individually(prices, symbols, env) ==
    IF symbols = <<>> THEN prices
    ELSE fetch_individually(
             Put(prices, Head(symbols), fetch_individual_price(env.history[Head(symbols)])),
             Tail(symbols), env)

\* Lines 81-82.
zero_prices(symbols) == [x \in {symbols[i] : i \in 1..Len(symbols)} |-> 0]

\* Lines 43-76, given the prices taken from the cache and the symbols to
\* fetch.
fetch_fresh(self, prices, fresh, env, current_time) ==
    IF fresh = <<>> THEN [prices |-> prices, self |-> self]
    ELSE IF env.tickers = "raise"
    THEN [prices |-> fetch_individually(prices, fresh, env), self |-> self]
    ELSE fetch_symbols([prices |-> prices, self |-> self], fresh, env, current_time)

\* get_current_prices(symbols): the mapping returned and the fetcher after
\* the call.
get_current_prices(self, symbols, env, current_time) ==
    IF symbols = <<>> THEN [prices |-> <<>>, self |-> self]
    ELSE IF env.other THEN [prices |-> zero_prices(symbols), self |-> self]
    ELSE fetch_fresh(self, cached_prices(self, symbols, current_time, <<>>),
                     fresh_symbols(self, symbols, current_time), env, current_time)

---------------------------------------------------------------------------
(* The analyzer as a state machine: a ledger, and the entry points called on it *)

NoCall == [op |-> "none"]

Init ==
    /\ uploaded_file = <<>>
    /\ ledger \in LedgersUpTo(MaxLen)
    /\ out = NoCall
    /\ calls = <<>>
    /\ stock_fetcher = StockDataFetcher

InitPriced ==
    /\ uploaded_file = <<>>
    /\ ledger \in LedgersUpTo(MaxLenPriced)
    /\ out = NoCall
    /\ calls = <<>>
    /\ stock_fetcher = StockDataFetcher

SymbolSet(df) == { get_unique_symbols(df)[i] : i \in 1..Len(get_unique_symbols(df)) }

\* calculate_current_holdings_without_prices().  totals keeps, per symbol,
\* the locals total_shares and total_cost as the symbol's loop left them.
CallHoldingsWithoutPrices ==
    /\ out' = [op |-> "holdings_without_prices",
               holdings |-> calculate_current_holdings_without_prices(ledger),
               totals |-> [s \in SymbolSet(ledger) |-> holding_totals(ledger, s)]]
    /\ calls' = Append(calls, out')
    /\ UNCHANGED <<uploaded_file, ledger, stock_fetcher>>

\* _calculate_realized_gains_losses()
CallRealizedGainsLosses ==
    /\ LET r == calculate_realized_gains_losses(ledger) IN
       out' = [op |-> "realized_gains_losses", realized_gl |-> r.realized_gl,
               bought_lots |-> r.bought_lots]
    /\ calls' = Append(calls, out')
    /\ UNCHANGED <<uploaded_file, ledger, stock_fetcher>>

\* calculate_current_holdings(), against one of the lookup results.
CallHoldings ==
    /\ \E lookups \in LookupEnvs :
          LET r == calculate_current_holdings(ledger, lookups) IN
          out' = [op |-> "holdings", lookups |-> lookups, raised |-> r.raised,
                  holdings |-> r.holdings, skipped_stocks |-> r.skipped_stocks]
    /\ calls' = Append(calls, out')
    /\ UNCHANGED <<uploaded_file, ledger, stock_fetcher>>

\* calculate_dividend_summary()
CallDividendSummary ==
    /\ out' = [op |-> "dividend_summary",
               summary |-> calculate_dividend_summary(ledger)]
    /\ calls' = Append(calls, out')
    /\ UNCHANGED <<uploaded_file, ledger, stock_fetcher>>

\* calculate_portfolio_summary_without_prices(); holdings is its local
\* holdings_df.
CallPortfolioSummaryWithoutPrices ==
    /\ out' = [op |-> "portfolio_summary_without_prices",
               holdings |-> calculate_current_holdings_without_prices(ledger),
               summary |-> calculate_portfolio_summary_without_prices(ledger)]
    /\ calls' = Append(calls, out')
    /\ UNCHANGED <<uploaded_file, ledger, stock_fetcher>>

\* calculate_portfolio_summary(current_prices), against one of the lookup
\* results; holdings is its local of that name.
CallPortfolioSummary ==
    /\ \E lookups \in LookupEnvs :
          out' = [op |-> "portfolio_summary", lookups |-> lookups,
                  holdings |-> calculate_current_holdings(ledger, lookups).holdings,
                  raised |-> calculate_portfolio_summary(ledger, lookups).raised,
                  summary |-> calculate_portfolio_summary(ledger, lookups).summary]
    /\ calls' = Append(calls, out')
    /\ UNCHANGED <<uploaded_file, ledger, stock_fetcher>>

Next ==
    \/ CallHoldingsWithoutPrices
    \/ CallPortfolioSummaryWithoutPrices
    \/ CallRealizedGainsLosses
    \/ CallDividendSummary

\* Nothing was called on the analyzer yet.
Fresh == calls = <<>>

\* The first call of an entry point that needs no lookup, on every ledger of
\* up to MaxLen rows.
Spec == Init /\ [][Fresh /\ Next]_vars

InitCalls ==
    /\ uploaded_file = <<>>
    /\ ledger \in LedgersUpTo(MaxLenCalls)
    /\ out = NoCall
    /\ calls = <<>>
    /\ stock_fetcher = StockDataFetcher

\* Every entry point of the analyzer.
NextCalls ==
    \/ CallHoldingsWithoutPrices
    \/ CallPortfolioSummaryWithoutPrices
    \/ CallRealizedGainsLosses
    \/ CallDividendSummary
    \/ CallHoldings
    \/ CallPortfolioSummary

\* Up to MaxCalls calls of the entry points on one analyzer, in any order.
SpecCalls == InitCalls /\ [][Len(calls) < MaxCalls /\ NextCalls]_vars

NextPriced ==
    \/ CallHoldingsWithoutPrices
    \/ CallHoldings
    \/ CallPortfolioSummaryWithoutPrices
    \/ CallPortfolioSummary

\* The two holdings computations side by side, on shorter ledgers.
SpecPriced == InitPriced /\ [][Fresh /\ NextPriced]_vars

InitPrices ==
    /\ uploaded_file = <<>>
    /\ ledger = <<>>
    /\ out = NoCall
    /\ calls = <<>>
    /\ stock_fetcher = StockDataFetcher

SymbolLists == UNION {[1..n -> EquitySymbols] : n \in 0..MaxSymbols}

\* time.time() of the last call of get_current_prices, 0 before the first.
LastTime == IF calls = <<>> THEN 0 ELSE calls[Len(calls)].current_time

\* stock_fetcher.get_current_prices(symbols), some time after the last
\* call: within the life of a cached price, or after it.
CallGetCurrentPrices ==
    /\ \E symbols \in SymbolLists, env \in PriceEnvs(Len(calls)), dt \in {100, 400} :
          /\ out' = [op |-> "get_current_prices", symbols |-> symbols, env |-> env,
                     current_time |-> LastTime + dt, before |-> stock_fetcher,
                     prices |-> get_current_prices(stock_fetcher, symbols, env,
                                                   LastTime + dt).prices]
          /\ stock_fetcher' = get_current_prices(stock_fetcher, symbols, env,
                                                 LastTime + dt).self
    /\ calls' = Append(calls, out')
    /\ UNCHANGED <<uploaded_file, ledger>>

\* stock_fetcher.clear_cache(): both caches are emptied (sector_cache, which
\* no price depends on, is left out of the fetcher's record).
clear_cache(self) == [price_cache |-> <<>>, cache_timestamp |-> <<>>]

CallClearCache ==
    /\ out' = [op |-> "clear_cache", current_time |-> LastTime, before |-> stock_fetcher]
    /\ stock_fetcher' = clear_cache(stock_fetcher)
    /\ calls' = Append(calls, out')
    /\ UNCHANGED <<uploaded_file, ledger>>

\* The calls of one operation made so far.
CallsOf(op) == {i \in 1..Len(calls) : calls[i].op = op}

NextPrices ==
    \/ Cardinality(CallsOf("get_current_prices")) < MaxFetches /\ CallGetCurrentPrices
    \/ Cardinality(CallsOf("clear_cache")) < MaxClears /\ CallClearCache

\* Prices asked for up to MaxFetches times on one fetcher, and its cache
\* cleared up to MaxClears times in between.
SpecPrices == InitPrices /\ [][NextPrices]_vars

---------------------------------------------------------------------------
(* PortfolioAnalyzer.fetch_yf_info_with_retry, one attempt at a time *)

\* Seconds slept after an attempt that raised.
delay == 3

InitRetry ==
    /\ uploaded_file = <<>>
    /\ ledger = <<>>
    /\ out = NoCall
    /\ calls = <<>>
    /\ stock_fetcher = StockDataFetcher

\* fetch_yf_info_with_retry(ticker, retries, delay, history_period) is
\* entered.  attempt is the loop variable; events lists what was done so
\* far: an attempt with what it gave ("data", "none", "raise"), or a sleep
\* with its seconds.
CallFetchYfInfoWithRetry ==
    /\ out = NoCall
    /\ \E retries \in 1..MaxRetries, history \in BOOLEAN :
          out' = [op |-> "fetch_yf_info_with_retry", retries |-> retries,
                  delay |-> delay, history_period |-> history, attempt |-> 0,
                  pc |-> "try", events |-> <<>>, result |-> "pending"]
    /\ UNCHANGED <<uploaded_file, ledger, calls, stock_fetcher>>

\* The loop after an attempt that neither returned nor raised.
next_attempt(r) ==
    IF r.attempt + 1 < r.retries
    THEN [r EXCEPT !.attempt = @ + 1]
    ELSE [r EXCEPT !.attempt = @ + 1, !.pc = "returned", !.result = "None"]

\* Lines 31-45 for one attempt, gave being what yf gave: data (returned), no
\* data or an empty history or a 'Not Found' code (the loop goes on at
\* once), or an exception (a sleep follows unless the attempt was the last,
\* which raises).
after_attempt(r, gave) ==
    IF gave = "data" THEN [r EXCEPT !.pc = "returned", !.result = "data"]
    ELSE IF gave = "none" THEN next_attempt(r)
    ELSE IF r.attempt < r.retries - 1 THEN [r EXCEPT !.pc = "sleep"]
    ELSE [r EXCEPT !.pc = "raised", !.result = "raise"]

\* One pass of the try block.
Attempt ==
    /\ out.op = "fetch_yf_info_with_retry" /\ out.pc = "try"
    /\ \E gave \in {"data", "none", "raise"} :
          out' = after_attempt([out EXCEPT !.events = Append(@, [e |-> gave, seconds |-> 0])],
                               gave)
    /\ UNCHANGED <<uploaded_file, ledger, calls, stock_fetcher>>

\* time.sleep(delay) at line 43, and the next pass of the loop.
Sleep ==
    /\ out.op = "fetch_yf_info_with_retry" /\ out.pc = "sleep"
    /\ out' = [out EXCEPT !.events = Append(@, [e |-> "sleep", seconds |-> out.delay]),
                          !.attempt = @ + 1, !.pc = "try"]
    /\ UNCHANGED <<uploaded_file, ledger, calls, stock_fetcher>>

NextRetry ==
    \/ CallFetchYfInfoWithRetry
    \/ Attempt
    \/ Sleep

\* One lookup with up to MaxRetries attempts, whatever each attempt gives.
SpecRetry == InitRetry /\ [][NextRetry]_vars

---------------------------------------------------------------------------
(* The normalizer as a state machine: an uploaded table, and its processing *)

\* Longest uploaded table.
MaxRows == 2

\* Cells a raw row is drawn from.
TextDateCells ==
    {Null, Text(<<>>), Text(<<" ">>), Text(<<"2", "0", "2", "4", "-", "0", "1",
                                           "-", "0", "3">>), Text(<<" ", "2",
                                                                 "0", "2",
                                                                 "4", "-",
                                                                 "0", "1",
                                                                 "-", "0",
                                                                 "1", " ">>),
     Text(<<"s", "o", "o", "n">>)}

SummaryCells ==
    {Null, Text(<<>>), Text(<<"D", "i", "v", "i", "d", "e", "n", "d">>), Text(ShareDealingCommissions),
     Text(<<"C", "l", "i", "e", "n", "t", " ", "C", "o", "n", "s", "i", "d",
            "e", "r", "a", "t", "i", "o", "n">>)}

TransactionTypeCells ==
    {Null, Text(<<>>), Text(TypeWITH), Text(TypeDEPO), Text(<<" ", "W", "I",
                                                              "T", "H">>), Text(<<
                                                                               "B",
                                                                               "U",
                                                                               "Y">>)}

PLAmountCells ==
    {Null, Number(Rat(-29083, 100)), Number(Rat(-7955, 10)), Number(Rat(-79551, 100)),
     Number(Rat(-754325, 1000)), Number(RInt(1000)), Number(RInt(-1000)),
     Number(RZero),
     Text(<<"$", "1", ",", "0", "0", "0", ".", "0", "0">>), Text(<<"-", "$", "1", ",", "0", "0", "0", ".", "0",
                                 "0">>), Text(<<"a", "b", "c">>)}

\* MarketName texts with one CONS, a quantity@price and a reference.
CryptoCons == <<"B", "e", "t", "a", "s", "h", "a", "r", "e", "s", " ", "C",
                "r", "y", "p", "t", "o", " ", "I", "n", "n", "o", "v", "a",
                "t", "o", "r", "s", " ", "E", "T", "F", " ", "C", "O", "N",
                "S", " ", "1", "2", "7", "@", "2", "2", "9", " ", "Z", "7",
                "0", "L", "K", ":", "1", "5", "9", "3", "8", "4", "8", "~",
                "1", "3", "6", "9">>
YieldCons == <<"B", "e", "t", "a", "S", "h", "a", "r", "e", "s", " ", "S",
               "&", "P", " ", "5", "0", "0", " ", "Y", "i", "e", "l", "d",
               " ", "M", "a", "x", "i", "m", "i", "s", "e", "r", " ", "F",
               "u", "n", "d", " ", "C", "O", "N", "S", " ", "3", "7", "@",
               "2", "1", "5", "0", " ", "Z", "7", "0", "L", "K", ":", "1",
               "7", "4", "9", "0", "2", "6", "~", "2", "4", "9">>
QantasCons == <<"Q", "a", "n", "t", "a", "s", " ", "A", "i", "r", "w", "a",
                "y", "s", " ", "L", "t", "d", " ", "C", "O", "N", "S", " ",
                "1", "4", "3", "@", "5", "2", "7", ".", "5", " ", "Z", "7",
                "0", "L", "K", ":", "1", "7", "4", "8", "4", "1", "1", "~",
                "2", "1", "0", "0">>
AaaCons == <<" ", " ", "A", "a", "a", " ", "L", "t", "d", " ", " ", "C", "O",
             "N", "S", " ", " ", " ", "1", "0", "@", "1", "0", "0", "0", "0",
             " ", " ", " ", "Z", "7", "0", "L", "K", ":", "1", "@", "2">>

MarketNameCells ==
    {Null, Text(<<>>), Text(<<" ", " ">>),
     Text(<<"C", "a", "r", "d", " ", "p", "a", "y", "m", "e", "n", "t", " ",
            "1", "2", "3", "4">>), Text(<<"R", "e", "t", "u", "r", "n", "e",
                                         "d", " ", "t", "o", " ", "c", "a",
                                         "r", "d">>),
     Text(<<"A", "a", "a", " ", "L", "t", "d", " ", "D", "I", "V", "I", "D",
            "E", "N", "D">>), Text(<<"D", "I", "V", "I", "D", "E", "N",
                                        "D">>), Text(<<"C", "O", "M",
                                                            "M", " ", "1",
                                                            "5", "9", "3",
                                                            "8", "4", "8">>),
     Text(CryptoCons), Text(YieldCons), Text(QantasCons), Text(AaaCons),
     Text(<<"A", "a", "a", " ", "L", "t", "d", " ", "C", "O", "N", "S", " ",
            "1", "0", " ", "Z", "7", "0", "L", "K">>), Text(<<"A", "a", "a", " ", "L", "t",
                                             "d", " ", "C", "O", "N", "S",
                                             " ", "0", "@", "1", "0", "0",
                                             "0", "0", " ", "Z", "7", "0",
                                             "L", "K">>),
     Text(<<"A", "a", "a", " ", "L", "t", "d">>),
     Text(<<"A", "a", "a", " ", "L", "t", "d", " ", "C", "O", "M", "M", " ", "C", "O", "N", "S", " ", "1", "0", " ", "Z", "7", "0", "L", "K">>),
     Text(<<"A", "a", "a", " ", "L", "t", "d", " ", "D", "I", "V", "I", "D", "E", "N", "D", " ", "C", "O", "N", "S", " ", "1", "0", "@", "1", "0", "0", "0", "0", " ", "Z", "7", "0", "L", "K">>),
     Text(<<"C", "a", "r", "d", " ", "p", "a", "y", "m", "e", "n", "t", " ", "D", "I", "V", "I", "D", "E", "N", "D", " ", "C", "O", "M", "M", " ", "C", "O", "N", "S">>)}

RawRows ==
    {RawRow(date, summary, market, type, pl) :
        date \in TextDateCells, summary \in SummaryCells, market \in MarketNameCells,
        type \in TransactionTypeCells, pl \in PLAmountCells}

\* The rows a table of several rows is drawn from: rows of every rule, and
\* rows that raise.
TableRows ==
    {RawRow(Text(<<"2", "0", "2", "4", "-", "0", "1", "-", "0", "3">>), Text(<<"C", "l", "i", "e", "n", "t", " ",
                                         "C", "o", "n", "s", "i", "d", "e",
                                         "r", "a", "t", "i", "o", "n">>), Text(CryptoCons),
            Text(TypeWITH), Number(Rat(-29083, 100))),
     RawRow(Text(<<" ", "2", "0", "2", "4", "-", "0", "1", "-", "0", "1",
                   " ">>), Text(<<"C", "l", "i", "e", "n", "t", " ",
                                           "C", "o", "n", "s", "i", "d", "e",
                                           "r", "a", "t", "i", "o", "n">>), Text(AaaCons),
            Text(TypeDEPO), Number(RInt(1000))),
     RawRow(Text(<<"2", "0", "2", "4", "-", "0", "1", "-", "0", "3">>), Text(<<"D", "i", "v", "i", "d", "e", "n",
                                         "d">>), Text(<<"A", "a", "a",
                                                             " ", "L", "t",
                                                             "d", " ", "D",
                                                             "I", "V", "I",
                                                             "D", "E", "N",
                                                             "D">>),
            Text(TypeDEPO), Number(RInt(1000))),
     RawRow(Text(<<"2", "0", "2", "4", "-", "0", "1", "-", "0", "3">>), Null, Text(<<" ", " ">>), Text(TypeWITH), Number(RInt(-1000))),
     RawRow(Text(<<" ", "2", "0", "2", "4", "-", "0", "1", "-", "0", "1",
                   " ">>), Text(<<"C", "a", "s", "h", " ", "I", "n">>), Text(<<"C", "a", "r",
                                                              "d", " ", "p",
                                                              "a", "y", "m",
                                                              "e", "n", "t",
                                                              " ", "1", "2",
                                                              "3", "4">>),
            Text(TypeDEPO), Text(<<"$", "1", ",", "0", "0", "0", ".", "0",
                                   "0">>)),
     RawRow(Text(<<"s", "o", "o", "n">>), Text(<<"C", "a", "s", "h", " ", "O", "u", "t">>), Text(<<"R", "e", "t", "u",
                                                       "r", "n", "e", "d",
                                                       " ", "t", "o", " ",
                                                       "c", "a", "r", "d">>),
            Text(TypeWITH), Number(RInt(-1000))),
     RawRow(Text(<<"2", "0", "2", "4", "-", "0", "1", "-", "0", "3">>), Text(<<"C", "l", "i", "e", "n", "t", " ",
                                         "C", "o", "n", "s", "i", "d", "e",
                                         "r", "a", "t", "i", "o", "n">>), Text(<<"A",
                                                                         "a",
                                                                         "a",
                                                                         " ",
                                                                         "L",
                                                                         "t",
                                                                         "d">>),
            Text(TypeWITH), Number(RInt(-1000))),
     RawRow(Text(<<"2", "0", "2", "4", "-", "0", "1", "-", "0", "3">>), Text(<<"C", "l", "i", "e", "n", "t", " ",
                                         "C", "o", "n", "s", "i", "d", "e",
                                         "r", "a", "t", "i", "o", "n">>),
            Text(<<"A", "a", "a", " ", "L", "t", "d", " ", "C", "O", "N",
                   "S", " ", "1", "0", " ", "Z", "7", "0", "L", "K">>), Text(TypeWITH), Number(RInt(-1000))),
     RawRow(Text(<<"2", "0", "2", "4", "-", "0", "1", "-", "0", "3">>), Text(<<"C", "l", "i", "e", "n", "t", " ",
                                         "C", "o", "n", "s", "i", "d", "e",
                                         "r", "a", "t", "i", "o", "n">>), Text(CryptoCons),
            Null, Number(Rat(-29083, 100))),
     RawRow(Text(<<"2", "0", "2", "4", "-", "0", "1", "-", "0", "3">>), Text(<<"C", "l", "i", "e", "n", "t", " ",
                                         "C", "o", "n", "s", "i", "d", "e",
                                         "r", "a", "t", "i", "o", "n">>), Text(CryptoCons),
            Text(TypeWITH), Text(<<"a", "b", "c">>))}

TablesUpTo(len) == UNION {[1..n -> TableRows] : n \in 0..len}

InitTable ==
    /\ uploaded_file \in TablesUpTo(MaxRows)
    /\ ledger = <<>>
    /\ out = NoCall
    /\ calls = <<>>
    /\ stock_fetcher = StockDataFetcher

InitRow ==
    /\ uploaded_file \in {<<row>> : row \in RawRows}
    /\ ledger = <<>>
    /\ out = NoCall
    /\ calls = <<>>
    /\ stock_fetcher = StockDataFetcher

Returned(op, r) == [op |-> op, error |-> r.error, transactions |-> r.transactions]

\* _transform_to_standard_format(df)
CallTransformToStandardFormat ==
    /\ out' = Returned("transform_to_standard_format",
                       transform_to_standard_format(uploaded_file))
    /\ calls' = Append(calls, out')
    /\ UNCHANGED <<uploaded_file, ledger, stock_fetcher>>

\* process_csv(uploaded_file)
CallProcessCsv ==
    /\ out' = Returned("process_csv", process_csv(uploaded_file))
    /\ calls' = Append(calls, out')
    /\ UNCHANGED <<uploaded_file, ledger, stock_fetcher>>

\* The row reaches the CONS rule: its checks and conversions pass and no
\* earlier rule takes its MarketName.
ReachesConsRule(row) ==
    /\ ~null_or_empty(row.TransactionType) /\ ~null_or_empty(row.MarketName)
    /\ ~isna(row.PLAmount) /\ ~null_or_empty(row.TextDate)
    /\ summary_default(row).ok
    /\ convert_pl_amount(row.PLAmount).ok
    /\ valid_transaction_type(str_strip(row.TransactionType.s))
    /\ ~str_contains(row.MarketName.s, CardPayment)
    /\ ~str_contains(row.MarketName.s, ReturnedToCard)
    /\ ~str_contains(row.MarketName.s, DIVIDEND)
    /\ ~str_contains(row.MarketName.s, COMM)
    /\ str_contains(row.MarketName.s, CONS)

ConsReturned(index, stock_info) ==
    [op |-> "parse_cons_transaction", row |-> index, ok |-> stock_info.ok,
     detail |-> stock_info.detail, stock_name |-> stock_info.stock_name,
     quantity |-> stock_info.quantity, unit_price |-> stock_info.unit_price,
     warned |-> stock_info.warned]

\* _parse_cons_transaction(market_name, index + 1, pl_amount), as line 193
\* calls it for a row that reaches the CONS rule.
CallParseConsTransaction ==
    /\ \E index \in 1..Len(uploaded_file) :
          /\ ReachesConsRule(uploaded_file[index])
          /\ out' = ConsReturned(index,
                        parse_cons_transaction(
                            str_strip(uploaded_file[index].MarketName.s),
                            convert_pl_amount(uploaded_file[index].PLAmount).value))
    /\ calls' = Append(calls, out')
    /\ UNCHANGED <<uploaded_file, ledger, stock_fetcher>>

NextNorm ==
    \/ CallTransformToStandardFormat
    \/ CallProcessCsv
    \/ CallParseConsTransaction

\* Tables of up to MaxRows rows, processed up to MaxRuns times.
SpecNorm == InitTable /\ [][Len(calls) < MaxRuns /\ NextNorm]_vars

\* Tables of one row, the row drawn from every combination of cells,
\* processed once.
SpecRow == InitRow /\ [][Fresh /\ NextNorm]_vars

\* _validate_and_clean_data called on a table of any length.
CallValidateAndCleanData ==
    /\ \E r \in validate_and_clean_data_quicksort(uploaded_file) :
          out' = Returned("validate_and_clean_data", r)
    /\ calls' = Append(calls, out')
    /\ UNCHANGED <<uploaded_file, ledger, stock_fetcher>>

NextSort == CallValidateAndCleanData

\* Tables of up to MaxRows rows standing for the rows of a table of any
\* length, validated once.
SpecSort == InitTable /\ [][Fresh /\ NextSort]_vars

---------------------------------------------------------------------------
(* Reference definitions the claims are stated with *)

\* The Buy/Sell rows of one symbol, in ledger order.
TradesOf(df, s) == SelectSeq(df, LAMBDA r : r.symbol = s /\ r.action \in {"Buy", "Sell"})

\* A row without its date.
Undated(r) == Txn(r.symbol, r.action, r.quantity, r.price)
UndatedRows(rows) == [i \in 1..Len(rows) |-> Undated(rows[i])]

Front(rows) == SubSeq(rows, 1, Len(rows) - 1)
Last(rows) == rows[Len(rows)]

\* The position in df of the symbol's last Buy/Sell row (there is one).
LastTradeIndex(df, s) ==
    CHOOSE i \in 1..Len(df) :
        /\ df[i].symbol = s /\ df[i].action \in {"Buy", "Sell"}
        /\ \A j \in (i + 1)..Len(df) : ~(df[j].symbol = s /\ df[j].action \in {"Buy", "Sell"})

WithoutRow(df, i) == SubSeq(df, 1, i - 1) \o SubSeq(df, i + 1, Len(df))

\* The ledger without the symbol's last Buy/Sell row.
BeforeLastTrade(df, s) == WithoutRow(df, LastTradeIndex(df, s))

Min(a, b) == IF a <= b THEN a ELSE b

RECURSIVE UnitGain(_, _, _, _)
\* Gain of selling the first k shares of units at sale_price; a share is
\* named by the index in rows of the Buy it came from.
UnitGain(units, k, rows, sale_price) ==
    IF k = 0 THEN 0
    ELSE (sale_price - rows[units[k]].price) + UnitGain(units, k - 1, rows, sale_price)

RECURSIVE RefFifo(_, _, _, _)
\* Share-by-share FIFO: every Buy queues its shares, every Sell takes the
\* oldest queued shares, as many as it sells or as are queued.
RefFifo(rows, i, units, gain) ==
    IF i > Len(rows) THEN [units |-> units, gain |-> gain]
    ELSE IF rows[i].action = "Buy"
    THEN RefFifo(rows, i + 1, units \o [k \in 1..rows[i].quantity |-> i], gain)
    ELSE LET k == Min(rows[i].quantity, Len(units)) IN
         RefFifo(rows, i + 1, SubSeq(units, k + 1, Len(units)),
                 gain + UnitGain(units, k, rows, rows[i].price))

RefFifoOf(df, s) == RefFifo(TradesOf(df, s), 1, <<>>, 0)

\* The open lots the queued shares make up: one lot per Buy that still has
\* shares queued, in purchase order.
RefLots(rows, units) ==
    LET buys == Unique(units, {}) IN
    [j \in 1..Len(buys) |->
        Lot(Cardinality({ k \in 1..Len(units) : units[k] = buys[j] }), rows[buys[j]].price)]

RECURSIVE RefGainAll(_, _)
RefGainAll(df, symbols) ==
    IF symbols = {} THEN 0
    ELSE LET s == CHOOSE x \in symbols : TRUE IN
         RefFifoOf(df, s).gain + RefGainAll(df, symbols \ {s})

RECURSIVE LotsQuantity(_)
LotsQuantity(lots) == IF lots = <<>> THEN 0 ELSE Head(lots).quantity + LotsQuantity(Tail(lots))

RECURSIVE LotsGain(_, _)
\* Gain of selling every share of the lots at sale_price.
LotsGain(lots, sale_price) ==
    IF lots = <<>> THEN 0
    ELSE Head(lots).quantity * (sale_price - Head(lots).price) + LotsGain(Tail(lots), sale_price)

RECURSIVE NetQuantity(_)
\* Sum of Buy quantities minus sum of Sell quantities.
NetQuantity(rows) ==
    IF rows = <<>> THEN 0
    ELSE (IF Head(rows).action = "Buy" THEN Head(rows).quantity ELSE -Head(rows).quantity)
         + NetQuantity(Tail(rows))

RowsOf(table, s) == { i \in 1..Len(table) : table[i].symbol = s }
RowSet(table) == { table[i] : i \in 1..Len(table) }

\* The rows that take part in position math.
PositionRows(df) ==
    SelectSeq(df, LAMBDA r : r.action \in {"Buy", "Sell"}
                             /\ r.symbol \notin {"COMMISSION", "CASH_DEPOSIT", "CASH_WITHDRAWAL"})

AAAOnly(df, trades) ==
    /\ UndatedRows(TradesOf(df, "AAA")) = trades
    /\ TradesOf(df, "BBB") = <<>>

---------------------------------------------------------------------------
(* Claims *)

\* C1.  Every Sell is matched against the oldest open lots first: after the
\* realized-gain computation each symbol's lot queue holds exactly the lots
\* that share-by-share FIFO matching leaves open (a lot sold out is gone, a
\* lot sold in part stays in place with what is left of it), and the
\* realized gain is the sum over the matched shares of sale price minus the
\* price of the lot the share came from.  Buy 10@100, Buy 5@200, Sell 12@150
\* gives 400; Buy 10@100, Sell 10@150 gives 500.
C1_FifoOldestLotsFirst ==
    out.op = "realized_gains_losses" =>
        /\ \A s \in SymbolSet(ledger) :
              out.bought_lots[s] = RefLots(TradesOf(ledger, s), RefFifoOf(ledger, s).units)
        /\ out.realized_gl = RefGainAll(ledger, SymbolSet(ledger))
        /\ AAAOnly(ledger, <<Txn("AAA", "Buy", 10, 100), Txn("AAA", "Buy", 5, 200),
                             Txn("AAA", "Sell", 12, 150)>>) => out.realized_gl = 400
        /\ AAAOnly(ledger, <<Txn("AAA", "Buy", 10, 100), Txn("AAA", "Sell", 10, 150)>>)
              => out.realized_gl = 500

\* A Sell that takes one lot whole and a part of the next has been computed.
C1_Witness ==
    /\ out.op = "realized_gains_losses"
    /\ AAAOnly(ledger, <<Txn("AAA", "Buy", 10, 100), Txn("AAA", "Buy", 5, 200),
                         Txn("AAA", "Sell", 12, 150)>>)
    /\ out.realized_gl = 400
    /\ out.bought_lots["AAA"] = <<Lot(3, 200)>>

\* The open quantity a Sell meets: what the symbol's earlier rows left open.
OpenBeforeLast(df, s) == calculate_realized_gains_losses(BeforeLastTrade(df, s))

\* Whether the symbol's last Buy/Sell row is a Sell of more than is open.
LastIsOversell(df, s) ==
    /\ TradesOf(df, s) # <<>>
    /\ Last(TradesOf(df, s)).action = "Sell"
    /\ Last(TradesOf(df, s)).quantity >
          (IF s \in DOMAIN OpenBeforeLast(df, s).bought_lots
           THEN LotsQuantity(OpenBeforeLast(df, s).bought_lots[s]) ELSE 0)

\* C2.  A Sell of more than the symbol's open lots hold realizes the gain of
\* the open lots only and leaves the queue empty; nothing is added for the
\* excess, and the excess is not carried forward: a Buy that follows opens a
\* lot of its full quantity behind the lots already open.
C2_OversellStopsAtEmptyQueue ==
    out.op = "realized_gains_losses" =>
        \A s \in SymbolSet(ledger) :
            LET rows == TradesOf(ledger, s)
                before == OpenBeforeLast(ledger, s)
                lotsBefore == IF s \in DOMAIN before.bought_lots
                              THEN before.bought_lots[s] ELSE <<>>
            IN  /\ LastIsOversell(ledger, s) =>
                      /\ out.bought_lots[s] = <<>>
                      /\ out.realized_gl = before.realized_gl
                                           + LotsGain(lotsBefore, Last(rows).price)
                /\ (rows # <<>> /\ Last(rows).action = "Buy") =>
                      /\ out.bought_lots[s] = Append(lotsBefore,
                                                     Lot(Last(rows).quantity, Last(rows).price))
                      /\ out.realized_gl = before.realized_gl

\* A Sell of 12 met 10 open shares, and a Buy of 5 followed it.
C2_Witness ==
    /\ out.op = "realized_gains_losses"
    /\ AAAOnly(ledger, <<Txn("AAA", "Buy", 10, 100), Txn("AAA", "Sell", 12, 150),
                         Txn("AAA", "Buy", 5, 200)>>)
    /\ out.realized_gl = 500
    /\ out.bought_lots["AAA"] = <<Lot(5, 200)>>

\* The locals total_shares and total_cost before the symbol's last row.
TotalsBeforeLast(df, s) == holding_rows([total_shares |-> 0, total_cost |-> RZero],
                                        Front(TradesOf(df, s)))

\* C3.  In the holdings computation without prices every Sell of no more
\* than the shares held, whatever quantity it leaves (zero included), takes
\* quantity x avg_cost_before off the running total_cost, avg_cost_before
\* being total_cost over the shares held before the Sell, and takes quantity
\* off the shares; every Buy adds quantity x price to total_cost and
\* quantity to the shares.
C3_EverySellReducesCost ==
    out.op = "holdings_without_prices" =>
        \A s \in SymbolSet(ledger) :
            LET rows == TradesOf(ledger, s)
                before == TotalsBeforeLast(ledger, s)
                t == Last(rows)
            IN  rows # <<>> =>
                  /\ t.action = "Buy" =>
                        /\ out.totals[s].total_shares = before.total_shares + t.quantity
                        /\ out.totals[s].total_cost =
                              RAdd(before.total_cost, RInt(t.quantity * t.price))
                  /\ (t.action = "Sell" /\ t.quantity <= before.total_shares) =>
                        /\ out.totals[s].total_shares = before.total_shares - t.quantity
                        /\ out.totals[s].total_cost =
                              RSub(before.total_cost,
                                   RMul(RInt(t.quantity),
                                        RDiv(before.total_cost, RInt(before.total_shares))))

\* C4.  A Sell that leaves a positive share count leaves the symbol's average
\* cost (total_cost over shares) as it was, and every reported holding has
\* total_invested = quantity x avg_cost.  Buy 10@100, Sell 4@120 gives
\* quantity 6, avg_cost 100, total_invested 600.
C4_SellKeepsAverageCost ==
    out.op = "holdings_without_prices" =>
        /\ \A s \in SymbolSet(ledger) :
              LET rows == TradesOf(ledger, s)
                  before == TotalsBeforeLast(ledger, s)
              IN  (rows # <<>> /\ Last(rows).action = "Sell" /\ out.totals[s].total_shares > 0) =>
                      RDiv(out.totals[s].total_cost, RInt(out.totals[s].total_shares))
                          = RDiv(before.total_cost, RInt(before.total_shares))
        /\ \A i \in 1..Len(out.holdings) :
              out.holdings[i].total_invested
                  = RMul(RInt(out.holdings[i].quantity), out.holdings[i].avg_cost)
        /\ AAAOnly(ledger, <<Txn("AAA", "Buy", 10, 100), Txn("AAA", "Sell", 4, 120)>>) =>
              \E i \in 1..Len(out.holdings) :
                  /\ out.holdings[i].symbol = "AAA"
                  /\ out.holdings[i].quantity = 6
                  /\ out.holdings[i].avg_cost = RInt(100)
                  /\ out.holdings[i].total_invested = RInt(600)

\* Holdings were computed for Buy 10@100, Sell 4@120.
C4_Witness ==
    /\ out.op = "holdings_without_prices"
    /\ AAAOnly(ledger, <<Txn("AAA", "Buy", 10, 100), Txn("AAA", "Sell", 4, 120)>>)
    /\ Len(out.holdings) = 1
    /\ out.holdings[1].quantity = 6
    /\ out.holdings[1].avg_cost = RInt(100)

\* Whether a lookup gave a price for the symbol.
LookupSucceeds(q) == q.info = "dict" /\ (q.currentPrice # NA \/ q.hist = "close")

\* The table has one row for s, with the net quantity, if that quantity is
\* positive, and no row for s otherwise.
NetPositionReported(table, df, s) ==
    /\ Cardinality(RowsOf(table, s)) = (IF NetQuantity(TradesOf(df, s)) > 0 THEN 1 ELSE 0)
    /\ \A i \in RowsOf(table, s) : table[i].quantity = NetQuantity(TradesOf(df, s))

\* C5.  For every ledger and every symbol that takes part in position math
\* (not a sentinel symbol), the holdings table reports the sum of the
\* symbol's Buy quantities minus the sum of its Sell quantities, and has a
\* row for the symbol if and only if that difference is strictly positive.
\* This holds of the table computed without prices and, for the symbols whose
\* lookup gave a price, of the table computed with prices.
C5_NetQuantityReported ==
    /\ out.op = "holdings_without_prices" =>
          \A s \in EquitySymbols : NetPositionReported(out.holdings, ledger, s)
    /\ (out.op = "holdings" /\ ~out.raised) =>
          \A s \in EquitySymbols :
              LookupSucceeds(out.lookups[s]) => NetPositionReported(out.holdings, ledger, s)

\* Both tables were computed for a ledger that leaves 6 shares of AAA.
C5_Witness ==
    /\ out.op = "holdings" /\ ~out.raised
    /\ LookupSucceeds(out.lookups["AAA"])
    /\ NetQuantity(TradesOf(ledger, "AAA")) = 6
    /\ \E i \in 1..Len(out.holdings) :
          out.holdings[i].symbol = "AAA" /\ out.holdings[i].quantity = 6

RECURSIVE SignedDividends(_)
\* Sum of the prices of the Dividend rows minus that of the withdrawals.
SignedDividends(df) ==
    IF df = <<>> THEN 0
    ELSE (IF Head(df).action = "Dividend" THEN Head(df).price
          ELSE IF Head(df).action = "Dividend_Withdrawal" THEN -Head(df).price
          ELSE 0) + SignedDividends(Tail(df))

DividendRows(df) ==
    UndatedRows(SelectSeq(df, LAMBDA r : r.action \in {"Dividend", "Dividend_Withdrawal"}))

\* C7.  total_dividends is the sum of the prices of the Dividend rows minus
\* the sum of the prices of the Dividend_Withdrawal rows, and dividend_count
\* is the number of Dividend rows, withdrawals never counted; so for
\* Dividend 50 and Dividend_Withdrawal 20 (30, count 1), for withdrawals only
\* and for no dividend rows at all.
C7_DividendNetting ==
    out.op = "dividend_summary" =>
        /\ out.summary.total_dividends = SignedDividends(ledger)
        /\ out.summary.dividend_count
              = Cardinality({ i \in 1..Len(ledger) : ledger[i].action = "Dividend" })
        /\ DividendRows(ledger) = <<Txn("AAA", "Dividend", 1, 50),
                                    Txn("AAA", "Dividend_Withdrawal", 1, 20)>>
              => out.summary.total_dividends = 30 /\ out.summary.dividend_count = 1
        /\ DividendRows(ledger) = <<Txn("AAA", "Dividend_Withdrawal", 1, 20)>>
              => out.summary.total_dividends = -20 /\ out.summary.dividend_count = 0
        /\ DividendRows(ledger) = <<>>
              => out.summary.total_dividends = 0 /\ out.summary.dividend_count = 0

\* The summary was computed for Dividend 50 and Dividend_Withdrawal 20.
C7_Witness ==
    /\ out.op = "dividend_summary"
    /\ DividendRows(ledger) = <<Txn("AAA", "Dividend", 1, 50),
                                Txn("AAA", "Dividend_Withdrawal", 1, 20)>>
    /\ out.summary.total_dividends = 30
    /\ out.summary.dividend_count = 1

---------------------------------------------------------------------------
(* Claims about the normalizer *)

\* The rows of the uploaded table that raise.
FailingRows == {i \in 1..Len(uploaded_file) : ~transform_row(uploaded_file[i]).ok}

\* Output row i carries the date text of raw row i.
OnePerRow(transactions) ==
    /\ Len(transactions) = Len(uploaded_file)
    /\ \A i \in 1..Len(uploaded_file) :
          transactions[i].date = str_strip(uploaded_file[i].TextDate.s)

DatesParse == \A i \in 1..Len(uploaded_file) : to_datetime(str_strip(uploaded_file[i].TextDate.s)).ok

\* C8.  Normalization is all-or-nothing and loses no row.  When every row
\* of the table classifies, _transform_to_standard_format returns one
\* transaction per raw row, in row order, and process_csv (the date texts
\* being dates) returns a ledger of as many rows.  When some row raises,
\* neither returns any transaction and the error carries the 1-based number
\* of the first such row.
C8_NormalizationAllOrNothing ==
    /\ out.op = "transform_to_standard_format" =>
          IF FailingRows = {}
          THEN out.error = NoError /\ OnePerRow(out.transactions)
          ELSE /\ out.transactions = <<>>
               /\ out.error.row = SetMin(FailingRows)
    /\ out.op = "process_csv" =>
          IF FailingRows = {}
          THEN DatesParse =>
                  /\ Len(out.transactions) = Len(uploaded_file)
                  /\ uploaded_file # <<>> => out.error = NoError
          ELSE /\ out.transactions = <<>>
               /\ out.error.row = SetMin(FailingRows)

\* A table whose first row classifies and whose second row raises: nothing
\* is returned and the error names row 2.
C8_Witness ==
    /\ out.op = "process_csv"
    /\ Len(uploaded_file) = 2
    /\ FailingRows = {2}
    /\ out.transactions = <<>>
    /\ out.error.row = 2

Absent(cell) == cell.k = "null" \/ (cell.k = "str" /\ Len(cell.s) = 0)

\* The row has one of the defects the claim lists.  A Transaction type is
\* read without its surrounding whitespace.
HardFailureCase(row) ==
    \/ Absent(row.TransactionType)
    \/ Absent(row.MarketName)
    \/ Absent(row.TextDate)
    \/ row.PLAmount.k = "null"
    \/ str_strip(row.TransactionType.s) \notin {TypeDEPO, TypeWITH}

MissingFieldKinds ==
    {"null_transaction_type", "null_market_name", "null_pl_amount", "null_text_date",
     "invalid_transaction_type"}

WithSummary(row, summary) == [row EXCEPT !.Summary = summary]

ConsCase(text, stock_name, quantity, unit_price) ==
    [text |-> text, stock_name |-> stock_name, quantity |-> quantity,
     unit_price |-> unit_price]

ConsCases ==
    {ConsCase(CryptoCons, <<"B", "e", "t", "a", "s", "h", "a", "r", "e", "s",
                            " ", "C", "r", "y", "p", "t", "o", " ", "I", "n",
                            "n", "o", "v", "a", "t", "o", "r", "s", " ", "E",
                            "T", "F">>, 127, Rat(229, 100)),
     ConsCase(YieldCons, <<"B", "e", "t", "a", "S", "h", "a", "r", "e", "s",
                           " ", "S", "&", "P", " ", "5", "0", "0", " ", "Y",
                           "i", "e", "l", "d", " ", "M", "a", "x", "i", "m",
                           "i", "s", "e", "r", " ", "F", "u", "n", "d">>, 37, Rat(2150, 100)),
     ConsCase(QantasCons, <<"Q", "a", "n", "t", "a", "s", " ", "A", "i", "r",
                            "w", "a", "y", "s", " ", "L", "t", "d">>, 143, Rat(5275, 1000)),
     ConsCase(AaaCons, <<"A", "a", "a", " ", "L", "t", "d">>, 10, Rat(10000, 100))}

\* quantity x unit_price is within 0.02 of |PL Amount|.
Reconciles(c, pl) ==
    LET total == RMul(RInt(c.quantity), c.unit_price)
        diff == RAbs(RSub(total, RAbs(pl)))
    IN  RLe(diff, Rat(2, 100))

\* C10.  A row whose MarketName is '<StockName>CONS <qty>@<price> <ref>',
\* with no other defect and a numeric PL Amount within 0.02 of
\* quantity x price / 100, gives a transaction whose symbol is the trimmed
\* text left of CONS, whose quantity is the integer before the '@' and
\* whose price is the number after it divided by 100, whatever its
\* magnitude; the action is Buy when the Transaction type is WITH and Sell
\* otherwise.
C10_ConsParsed ==
    (out.op = "transform_to_standard_format" /\ Len(uploaded_file) = 1) =>
        LET row == uploaded_file[1] IN
        \A c \in ConsCases :
            (/\ row.MarketName = Text(c.text)
             /\ ~HardFailureCase(row)
             /\ row.PLAmount.k = "num"
             /\ Reconciles(c, row.PLAmount.v))
            => /\ out.error = NoError
               /\ Len(out.transactions) = 1
               /\ out.transactions[1].symbol = c.stock_name
               /\ out.transactions[1].quantity = c.quantity
               /\ out.transactions[1].price = c.unit_price
               /\ out.transactions[1].action =
                     IF str_strip(row.TransactionType.s) = TypeWITH THEN "Buy" ELSE "Sell"

\* 37@2150 on a DEPO row with PL Amount -795.51, a cent off 37 x 21.50: a
\* Sell of 37 at 21.50.
C10_Witness ==
    /\ out.op = "transform_to_standard_format"
    /\ uploaded_file[1].MarketName = Text(YieldCons)
    /\ uploaded_file[1].TransactionType = Text(TypeDEPO)
    /\ uploaded_file[1].PLAmount = Number(Rat(-79551, 100))
    /\ out.error = NoError
    /\ out.transactions[1].action = "Sell"
    /\ out.transactions[1].quantity = 37
    /\ out.transactions[1].price = Rat(215, 10)

\* |quantity x price - |PL Amount|| of the one row of the table.
ReconcileGap(t) ==
    RAbs(RSub(RMul(RInt(t.quantity), t.price),
              RAbs(convert_pl_amount(uploaded_file[1].PLAmount).value)))

\* C11.  Every Buy/Sell transaction the normalizer writes has
\* |quantity x price - |PL Amount|| <= 0.02.  For a CONS text, whatever the
\* PL Amount, the parser does not fail: when quantity x price / 100 is
\* within 0.02 of |PL Amount| it returns the parsed price without a
\* warning, otherwise it warns and returns |PL Amount| / quantity.
C11_PriceReconciled ==
    /\ (out.op = "transform_to_standard_format" /\ Len(uploaded_file) = 1
         /\ out.error = NoError /\ out.transactions[1].action \in {"Buy", "Sell"})
        => RLe(ReconcileGap(out.transactions[1]), Rat(2, 100))
    /\ (out.op = "parse_cons_transaction" /\ Len(uploaded_file) = 1) =>
          LET pl == convert_pl_amount(uploaded_file[1].PLAmount).value IN
          \A c \in ConsCases :
              uploaded_file[1].MarketName = Text(c.text) =>
                  /\ out.ok
                  /\ out.quantity = c.quantity
                  /\ IF Reconciles(c, pl)
                     THEN out.unit_price = c.unit_price /\ ~out.warned
                     ELSE /\ out.warned
                          /\ out.unit_price = RDiv(RAbs(pl), RInt(c.quantity))

\* 37@2150 against a PL Amount of -1000: a warning, and the price 1000 / 37.
C11_Witness ==
    /\ out.op = "parse_cons_transaction"
    /\ uploaded_file[1].MarketName = Text(YieldCons)
    /\ uploaded_file[1].PLAmount = Number(RInt(-1000))
    /\ out.ok /\ out.warned
    /\ out.unit_price = Rat(1000, 37)

\* Two calls of one entry point with the same arguments.
SameCall(a, b) ==
    a.op = b.op /\ (a.op = "parse_cons_transaction" => a.row = b.row)

DateKeys(rows) == {rows[i].date : i \in 1..Len(rows)}
OnDate(rows, date) == SelectSeq(rows, LAMBDA t : t.date = date)
EarliestDate(dates) == CHOOSE a \in dates : \A b \in dates : ~date_before(b, a)

\* The rows by ascending date, each date's rows in the order given.
RECURSIVE ByDateKeepingOrder(_, _)
ByDateKeepingOrder(rows, dates) ==
    IF dates = {} THEN <<>>
    ELSE OnDate(rows, EarliestDate(dates))
            \o ByDateKeepingOrder(rows, dates \ {EarliestDate(dates)})

RawOrderLedger(df) == clean_data_types(transform_to_standard_format(df).transactions)

C13_DatesAscending ==
    (out.op = "validate_and_clean_data" /\ out.error = NoError) =>
        date_ascending(out.transactions)

\* ---------------------------------------------------------------------
\* C14.  A symbol whose lookup fails is skipped with a reason, and the
\* priced holdings are computed for the other symbols.

\* The symbol has an entry in the skip list, with a reason.
Skipped(skipped_stocks, s) ==
    \E i \in 1..Len(skipped_stocks) :
        skipped_stocks[i].symbol = s /\ skipped_stocks[i].reason # ""

\* C14: calculate_current_holdings returns whatever the lookups give; a
\* symbol whose lookup raised, gave no data or gave no price has no row in
\* the holdings and an entry with a reason in the skip list; every other
\* symbol has its row exactly when its net quantity is positive.
C14_FailedLookupSkipped ==
    out.op = "holdings" =>
        /\ ~out.raised
        /\ \A s \in SymbolSet(ledger) :
              IF LookupSucceeds(out.lookups[s])
              THEN NetPositionReported(out.holdings, ledger, s)
              ELSE /\ \A i \in 1..Len(out.holdings) : out.holdings[i].symbol # s
                   /\ Skipped(out.skipped_stocks, s)

\* The part of C14 that holds: a lookup that raised, gave no data, or gave
\* no price together with no market or no sector, is skipped with a reason
\* and the other symbols are reported.
C14_SkippedWhenReasonGiven ==
    (out.op = "holdings" /\ ~out.raised) =>
        \A s \in SymbolSet(ledger) :
            skip_reason(out.lookups[s]) # "" =>
                /\ \A i \in 1..Len(out.holdings) : out.holdings[i].symbol # s
                /\ Skipped(out.skipped_stocks, s)

\* ---------------------------------------------------------------------
\* C15.  allocation_pct is the holding's share of the total current value,
\* in percent, and 0 when that total is 0.

\* Every row's allocation_pct is current_value / total x 100, the
\* allocations adding up to 100, when the total is positive; every row's
\* allocation_pct is 0 when the total is 0.
AllocationOfTotal(holdings) ==
    IF RPos(SumField(holdings, "current_value"))
    THEN /\ \A i \in 1..Len(holdings) :
               holdings[i].allocation_pct
                   = RMul(RDiv(holdings[i].current_value,
                               SumField(holdings, "current_value")), RInt(100))
         /\ SumField(holdings, "allocation_pct") = RInt(100)
    ELSE \A i \in 1..Len(holdings) : holdings[i].allocation_pct = RZero

\* C15: both holdings tables, the one computed with prices and the one
\* computed without, give each holding its share of the total current value
\* in percent, summing to 100, and 0 to every holding when the total is 0.
C15_AllocationOfTotal ==
    /\ out.op = "holdings_without_prices" => AllocationOfTotal(out.holdings)
    /\ (out.op = "holdings" /\ ~out.raised) => AllocationOfTotal(out.holdings)

\* The part of C15 that holds: the table computed without prices, and the
\* table computed with prices when its total value is not 0.
C15_AllocationWhenTotalPositive ==
    /\ out.op = "holdings_without_prices" => AllocationOfTotal(out.holdings)
    /\ (out.op = "holdings" /\ ~out.raised
          /\ RPos(SumField(out.holdings, "current_value"))) =>
          AllocationOfTotal(out.holdings)

\* ---------------------------------------------------------------------
\* C16.  Without a price source a holding is valued at its average cost.

\* C16: in the holdings computed without prices every row has current_price
\* = avg_cost, current_value = quantity x avg_cost = total_invested,
\* gain_loss = 0 and gain_loss_pct = 0, and the summary computed without
\* prices has current_value = total_invested and unrealized_gain_loss = 0.
C16_ValuedAtAverageCost ==
    /\ out.op \in {"holdings_without_prices", "portfolio_summary_without_prices"} =>
          \A i \in 1..Len(out.holdings) :
              /\ out.holdings[i].current_price = out.holdings[i].avg_cost
              /\ out.holdings[i].current_value
                    = RMul(RInt(out.holdings[i].quantity), out.holdings[i].avg_cost)
              /\ out.holdings[i].current_value = out.holdings[i].total_invested
              /\ out.holdings[i].gain_loss = RZero
              /\ out.holdings[i].gain_loss_pct = RZero
    /\ out.op = "portfolio_summary_without_prices" =>
          /\ out.summary.current_value = out.summary.total_invested
          /\ out.summary.unrealized_gain_loss = RZero

\* The summary of a ledger with a sale that leaves a position worth 600.
C16_Witness ==
    /\ out.op = "portfolio_summary_without_prices"
    /\ \E i \in 1..Len(ledger) : ledger[i].action = "Sell"
    /\ Len(out.holdings) = 1
    /\ out.holdings[1].current_price = RInt(100)
    /\ out.summary.current_value = RInt(600)
    /\ out.summary.total_invested = RInt(600)

\* ---------------------------------------------------------------------
\* C17.  The entry points of the analyzer neither change the ledger nor
\* keep anything from one call to the next.

\* Two calls of one entry point, given the same lookup results where the
\* entry point looks prices up.
SameEntryPoint(a, b) ==
    /\ a.op = b.op
    /\ a.op \in {"holdings", "portfolio_summary"} => a.lookups = b.lookups

PriceOf(call, symbol) ==
    IF call.env.other THEN 0
    ELSE IF is_cached(call.before, symbol, call.current_time)
    THEN call.before.price_cache[symbol]
    ELSE IF call.env.history[symbol].hist = "close"
    THEN call.env.history[symbol].close
    ELSE 0

\* C18: get_current_prices returns a mapping whose keys are exactly the
\* symbols asked for; a symbol with no usable cached price whose history
\* raises or is empty, or any symbol when the batch or the call as a whole
\* fails and no price is found, maps to 0.0; and the price of a symbol
\* depends on that symbol's cache entry and history alone, not on what
\* happens for the other symbols.
C18_PriceForEverySymbol ==
    out.op = "get_current_prices" =>
        /\ DOMAIN out.prices = {out.symbols[i] : i \in 1..Len(out.symbols)}
        /\ \A s \in DOMAIN out.prices : out.prices[s] = PriceOf(out, s)

\* Prices asked for AAA and BBB: the history of AAA raises and AAA maps to
\* 0.0, the price of BBB is returned.
C18_Witness ==
    /\ out.op = "get_current_prices"
    /\ out.symbols = <<"AAA", "BBB">>
    /\ ~out.env.other /\ out.env.tickers = "ok"
    /\ out.env.history["AAA"].hist = "raise"
    /\ out.env.history["BBB"].hist = "close"
    /\ out.prices["AAA"] = 0
    /\ out.prices["BBB"] = 150

\* ---------------------------------------------------------------------
\* C19.  The fields of a portfolio summary.

SummaryFields ==
    {"total_invested", "current_value", "realized_gain_loss", "unrealized_gain_loss",
     "total_gain_loss", "num_positions"}

\* The summary has every field, and counts the rows of the holdings table.
SummaryComplete(summary, holdings) ==
    /\ SummaryFields \subseteq DOMAIN summary
    /\ summary.num_positions = Len(holdings)

\* C19: the summary returned by calculate_portfolio_summary and by
\* calculate_portfolio_summary_without_prices, for every ledger and the
\* empty one too, has the fields total_invested, current_value,
\* realized_gain_loss, unrealized_gain_loss, total_gain_loss and
\* num_positions, num_positions being the number of rows of the holdings
\* table.
C19_SummaryComplete ==
    /\ out.op = "portfolio_summary_without_prices" =>
          SummaryComplete(out.summary, out.holdings)
    /\ (out.op = "portfolio_summary" /\ ~out.raised) =>
          SummaryComplete(out.summary, out.holdings)

\* The part of C19 that holds: the summary computed without prices.
C19_SummaryWithoutPricesComplete ==
    out.op = "portfolio_summary_without_prices" =>
        SummaryComplete(out.summary, out.holdings)

\* ---------------------------------------------------------------------
\* C20.  A PL Amount written as currency text is read as its number.

\* The PL Amount is text with a dollar sign or a thousands separator that
\* stands for a number.
IsCurrencyText(pl) ==
    /\ pl.k = "str"
    /\ str_contains(pl.s, <<"$">>) \/ str_contains(pl.s, <<",">>)
    /\ convert_pl_amount(pl).ok

\* The row with its PL Amount replaced by the number it stands for.
WithNumericAmount(row) ==
    [row EXCEPT !.PLAmount = Number(convert_pl_amount(row.PLAmount).value)]

\* C20: a row whose PL Amount is currency text is normalized to the
\* Transaction the same row gives with the equivalent number as PL Amount,
\* whatever the other fields are, an absent Summary on a WITH row included.
C20_CurrencyTextAsNumber ==
    (/\ out.op = "transform_to_standard_format"
     /\ Len(uploaded_file) = 1
     /\ IsCurrencyText(uploaded_file[1].PLAmount)) =>
        out = Returned("transform_to_standard_format",
                       transform_to_standard_format(<<WithNumericAmount(uploaded_file[1])>>))

\* The part of C20 that holds: the rows that have a Summary, and the rows
\* whose Transaction type is not WITH as written.
C20_CurrencyTextWithSummary ==
    (/\ out.op = "transform_to_standard_format"
     /\ Len(uploaded_file) = 1
     /\ IsCurrencyText(uploaded_file[1].PLAmount)
     /\ \/ ~null_or_empty(uploaded_file[1].Summary)
        \/ isna(uploaded_file[1].TransactionType)
        \/ uploaded_file[1].TransactionType.s # TypeWITH) =>
        out = Returned("transform_to_standard_format",
                       transform_to_standard_format(<<WithNumericAmount(uploaded_file[1])>>))

\* ---------------------------------------------------------------------
\* C21.  The rules are tried in a fixed order and the first that matches
\* decides.

\* The row passes the checks and conversions made before the rules.
ReachesRules(row) ==
    /\ ~null_or_empty(row.TransactionType) /\ ~null_or_empty(row.MarketName)
    /\ ~isna(row.PLAmount) /\ ~null_or_empty(row.TextDate)
    /\ summary_default(row).ok
    /\ convert_pl_amount(row.PLAmount).ok
    /\ valid_transaction_type(str_strip(row.TransactionType.s))

\* The texts of rules 1 to 5, in order, and the number of the first rule
\* whose text the MarketName contains (0: none).
RuleTexts == <<CardPayment, ReturnedToCard, DIVIDEND, COMM, CONS>>
FirstRule(market_name) ==
    IF \E i \in 1..Len(RuleTexts) : str_contains(market_name, RuleTexts[i])
    THEN CHOOSE i \in 1..Len(RuleTexts) :
            /\ str_contains(market_name, RuleTexts[i])
            /\ \A j \in 1..(i - 1) : ~str_contains(market_name, RuleTexts[j])
    ELSE 0

\* The actions a rule writes and the errors it raises.
RuleActions(rule) ==
    CASE rule = 1 -> {"Cash_In"}
      [] rule = 2 -> {"Cash_Out"}
      [] rule = 3 -> {"Dividend", "Dividend_Withdrawal"}
      [] rule = 4 -> {"Commission"}
      [] rule = 5 -> {"Buy", "Sell"}
      [] OTHER -> {"Commission", "Dividend_Withdrawal"}
RuleErrors(rule) ==
    CASE rule = 3 -> {"dividend_no_stock_name"}
      [] rule = 5 -> {"cons_parse"}
      [] rule = 0 -> {"unknown_format"}
      [] OTHER -> {}

\* C21: for a row that reaches the rules, the first of Card payment,
\* Returned to card, DIVIDEND, COMM, CONS that its MarketName contains
\* decides alone: the Transaction has an action of that rule, or the row
\* fails with an error of that rule; the by-Summary rules are tried only
\* when none of the five matches.  So COMM with CONS is a Commission and
\* never a parse error, DIVIDEND with CONS is a dividend, and Card payment
\* is Cash_In whatever else the name contains.
C21_FirstRuleDecides ==
    (/\ out.op = "transform_to_standard_format"
     /\ Len(uploaded_file) = 1
     /\ ReachesRules(uploaded_file[1])) =>
        IF out.error = NoError
        THEN out.transactions[1].action
                \in RuleActions(FirstRule(str_strip(uploaded_file[1].MarketName.s)))
        ELSE out.error.kind
                \in RuleErrors(FirstRule(str_strip(uploaded_file[1].MarketName.s)))

\* A MarketName with COMM and a CONS part the parser would reject became
\* a Commission.
C21_Witness ==
    /\ out.op = "transform_to_standard_format"
    /\ Len(uploaded_file) = 1
    /\ uploaded_file[1].MarketName = Text(<<"A", "a", "a", " ", "L", "t", "d", " ", "C", "O", "M", "M", " ", "C", "O", "N", "S", " ", "1", "0", " ", "Z", "7", "0", "L", "K">>)
    /\ out.error = NoError
    /\ out.transactions[1].action = "Commission"
    /\ out.transactions[1].symbol = COMMISSION

\* ---------------------------------------------------------------------
\* C22.  What the CONS parser rejects, and what it never lets through.

\* The quantity@price token of a MarketName with one CONS.
ConsToken(market_name) ==
    quantity_price_part(str_strip(str_split(market_name, CONS)[2]))

\* The token has no "@", or its quantity is no positive integer, or its
\* price is no positive number.
BadToken(token) ==
    \/ ~str_contains(token, <<"@">>)
    \/ ~int_of(str_strip(str_split_once(token, <<"@">>)[1])).ok
    \/ int_of(str_strip(str_split_once(token, <<"@">>)[1])).value <= 0
    \/ ~float_of(str_strip(str_split_once(token, <<"@">>)[2])).ok
    \/ ~RPos(float_of(str_strip(str_split_once(token, <<"@">>)[2])).value)

\* One of the cases the parser is to reject.
BadCons(market_name) ==
    \/ Len(str_split(market_name, CONS)) # 2
    \/ str_strip(str_split(market_name, CONS)[1]) = <<>>
    \/ BadToken(ConsToken(market_name))

\* The part of C22 that holds: each of the listed cases fails the parse,
\* and the row with it.
C22_BadConsFails ==
    /\ (out.op = "parse_cons_transaction"
          /\ BadCons(str_strip(uploaded_file[out.row].MarketName.s))) => ~out.ok
    /\ (/\ out.op = "transform_to_standard_format"
         /\ Len(uploaded_file) = 1
         /\ ReachesConsRule(uploaded_file[1])
         /\ BadCons(str_strip(uploaded_file[1].MarketName.s))) =>
            out.error.kind = "cons_parse" /\ out.transactions = <<>>

\* C22: the CONS parser fails the row when the MarketName has not exactly
\* one CONS, when the stock name is empty, when the quantity/price token
\* has no "@", when the quantity is not a positive integer or the price is
\* not positive; and so no Buy or Sell Transaction is written with a
\* quantity <= 0 or a price <= 0.
C22_NoBadTradeEmitted ==
    /\ C22_BadConsFails
    /\ (out.op = "transform_to_standard_format" /\ out.error = NoError) =>
          \A i \in 1..Len(out.transactions) :
              out.transactions[i].action \in {"Buy", "Sell"} =>
                  /\ out.transactions[i].quantity > 0
                  /\ RPos(out.transactions[i].price)

\* ---------------------------------------------------------------------
\* C23.  The commission rule that follows rules 1 to 5.

\* The MarketName as text, the absent one being empty.
MarketText(row) == IF isna(row.MarketName) THEN <<>> ELSE str_strip(row.MarketName.s)

\* The row passes the checks and conversions of the fields other than
\* MarketName.
OtherFieldsPass(row) ==
    /\ ~null_or_empty(row.TransactionType)
    /\ ~isna(row.PLAmount) /\ ~null_or_empty(row.TextDate)
    /\ summary_default(row).ok
    /\ convert_pl_amount(row.PLAmount).ok
    /\ valid_transaction_type(str_strip(row.TransactionType.s))

\* The row is one the commission rule names: its Summary is 'Share
\* Dealing Commissions', or its MarketName is empty, its Transaction type
\* WITH and its PL Amount negative.
CommissionBySummary(row) ==
    ~isna(row.Summary) /\ str_strip(row.Summary.s) = ShareDealingCommissions
CommissionByEmptyName(row) ==
    /\ MarketText(row) = <<>>
    /\ str_strip(row.TransactionType.s) = TypeWITH
    /\ RLt(convert_pl_amount(row.PLAmount).value, RZero)

\* The one Transaction written is the Commission of the amount.
IsCommissionOf(r, row) ==
    /\ r.error = NoError
    /\ Len(r.transactions) = 1
    /\ r.transactions[1].symbol = COMMISSION
    /\ r.transactions[1].action = "Commission"
    /\ r.transactions[1].quantity = 1
    /\ r.transactions[1].price = RAbs(convert_pl_amount(row.PLAmount).value)

\* C23: a row that matches none of rules 1 to 5 is written as Commission
\* (symbol COMMISSION, quantity 1, price |PL Amount|) when its Summary is
\* 'Share Dealing Commissions', and when its MarketName is empty, its
\* Transaction type WITH and its PL Amount negative.
C23_CommissionRule ==
    (/\ out.op = "transform_to_standard_format"
     /\ Len(uploaded_file) = 1
     /\ OtherFieldsPass(uploaded_file[1])
     /\ FirstRule(MarketText(uploaded_file[1])) = 0
     /\ CommissionBySummary(uploaded_file[1]) \/ CommissionByEmptyName(uploaded_file[1])) =>
        IsCommissionOf(out, uploaded_file[1])

\* The part of C23 that holds: the rows whose MarketName cell holds some
\* text, if only spaces.
C23_CommissionRuleGivenName ==
    (/\ out.op = "transform_to_standard_format"
     /\ Len(uploaded_file) = 1
     /\ OtherFieldsPass(uploaded_file[1])
     /\ ~null_or_empty(uploaded_file[1].MarketName)
     /\ FirstRule(MarketText(uploaded_file[1])) = 0
     /\ CommissionBySummary(uploaded_file[1]) \/ CommissionByEmptyName(uploaded_file[1])) =>
        IsCommissionOf(out, uploaded_file[1])

\* ---------------------------------------------------------------------
\* C24.  The Summary an absent Summary is replaced by.

\* The row passes the null checks, its Transaction type is DEPO or WITH
\* and its PL Amount stands for a number.
FieldsPresent(row) ==
    /\ ~null_or_empty(row.TransactionType) /\ ~null_or_empty(row.MarketName)
    /\ ~isna(row.PLAmount) /\ ~null_or_empty(row.TextDate)
    /\ convert_pl_amount(row.PLAmount).ok
    /\ valid_transaction_type(str_strip(row.TransactionType.s))

\* A WITH row with a negative PL Amount.
NegativeWith(row) ==
    /\ str_strip(row.TransactionType.s) = TypeWITH
    /\ RLt(convert_pl_amount(row.PLAmount).value, RZero)

\* C24: a row without Summary that matches none of rules 1 to 5 is written
\* as Commission when its Transaction type is WITH and its PL Amount is
\* negative, the absent Summary having become 'Share Dealing Commissions';
\* on any other row the absent Summary stays empty, and the row fails as
\* unknown.
C24_SummaryDefault ==
    (/\ out.op = "transform_to_standard_format"
     /\ Len(uploaded_file) = 1
     /\ FieldsPresent(uploaded_file[1])
     /\ null_or_empty(uploaded_file[1].Summary)
     /\ FirstRule(MarketText(uploaded_file[1])) = 0) =>
        IF NegativeWith(uploaded_file[1])
        THEN IsCommissionOf(out, uploaded_file[1])
        ELSE out.error.kind = "unknown_format"

\* The part of C24 that holds: the rows whose Transaction type is written
\* without surrounding spaces and whose PL Amount is a number.
C24_SummaryDefaultPlainCells ==
    (/\ out.op = "transform_to_standard_format"
     /\ Len(uploaded_file) = 1
     /\ FieldsPresent(uploaded_file[1])
     /\ uploaded_file[1].TransactionType.s = str_strip(uploaded_file[1].TransactionType.s)
     /\ uploaded_file[1].PLAmount.k = "num"
     /\ null_or_empty(uploaded_file[1].Summary)
     /\ FirstRule(MarketText(uploaded_file[1])) = 0) =>
        IF NegativeWith(uploaded_file[1])
        THEN IsCommissionOf(out, uploaded_file[1])
        ELSE out.error.kind = "unknown_format"

\* ---------------------------------------------------------------------
\* C25.  The attempts and the delays of fetch_yf_info_with_retry.

\* The places of the attempts in the list of events.
Attempts(events) == {i \in 1..Len(events) : events[i].e # "sleep"}

\* At most retries attempts are made, and the call ends with the data, with
\* None or with the last error, after which nothing more is done.
BoundedAttempts(r) ==
    /\ Cardinality(Attempts(r.events)) <= r.retries
    /\ r.pc \in {"returned", "raised"} =>
          /\ r.result \in {"data", "None", "raise"}
          /\ r.events[Len(r.events)].e # "sleep"
          /\ r.result = "None" => Cardinality(Attempts(r.events)) = r.retries
          /\ r.result = "raise" =>
                /\ Cardinality(Attempts(r.events)) = r.retries
                /\ r.events[Len(r.events)].e = "raise"

\* C25: fetch_yf_info_with_retry makes at most retries attempts and then
\* returns the data, returns None or raises the last error; and every
\* attempt after the first comes right after a sleep of delay seconds,
\* whether the attempt before raised or gave no data.
C25_BoundedRetryFixedDelay ==
    out.op = "fetch_yf_info_with_retry" =>
        /\ BoundedAttempts(out)
        /\ \A i \in Attempts(out.events) :
              i > 1 => out.events[i - 1] = [e |-> "sleep", seconds |-> delay]

\* The part of C25 that holds: the attempts are bounded, and an attempt
\* that follows one that raised comes after a sleep of delay seconds.
C25_BoundedRetryDelayAfterError ==
    out.op = "fetch_yf_info_with_retry" =>
        /\ BoundedAttempts(out)
        /\ \A i \in Attempts(out.events) :
              i > 1 =>
                \/ out.events[i - 1] = [e |-> "none", seconds |-> 0]
                \/ /\ out.events[i - 1] = [e |-> "sleep", seconds |-> delay]
                   /\ out.events[i - 2].e = "raise"

\* ---------------------------------------------------------------------
\* C26.  Lots belong to one symbol.

\* The rows of one symbol, in ledger order.
OnlySymbol(df, s) == SelectSeq(df, LAMBDA r : r.symbol = s)

\* The realized gain of the symbols of the set, each computed from the
\* ledger of its own rows.
RECURSIVE GainBySymbol(_, _)
GainBySymbol(df, symbols) ==
    IF symbols = {} THEN 0
    ELSE LET s == CHOOSE x \in symbols : TRUE IN
         calculate_realized_gains_losses(OnlySymbol(df, s)).realized_gl
             + GainBySymbol(df, symbols \ {s})

\* C26: realized_gain_loss is the sum over the symbols of the gain each
\* symbol's own Buy/Sell rows give, and the lots left for a symbol are
\* those its own rows leave, however the rows of other symbols are
\* interleaved: a Sell never takes from a lot of another symbol.
C26_LotsPerSymbol ==
    out.op = "realized_gains_losses" =>
        /\ out.realized_gl = GainBySymbol(ledger, SymbolSet(ledger))
        /\ \A s \in SymbolSet(ledger) :
              out.bought_lots[s]
                  = calculate_realized_gains_losses(OnlySymbol(ledger, s)).bought_lots[s]

\* A Sell of BBB in a ledger where only AAA was bought: nothing is
\* realized and the lot of AAA is whole.
C26_Witness ==
    /\ out.op = "realized_gains_losses"
    /\ \E i, j \in 1..Len(ledger) :
          /\ i < j
          /\ ledger[i].symbol = "AAA" /\ ledger[i].action = "Buy"
          /\ ledger[j].symbol = "BBB" /\ ledger[j].action = "Sell"
    /\ \A i \in 1..Len(ledger) : ledger[i].symbol = "BBB" => ledger[i].action = "Sell"
    /\ out.realized_gl = 0
    /\ out.bought_lots["AAA"] = <<Lot(10, 100)>>
    /\ out.bought_lots["BBB"] = <<>>

\* ---------------------------------------------------------------------
\* C27.  The lot queue after each transaction of a symbol.

\* The symbol's transactions as the loop takes them, and the queue after
\* the first k of them.
FifoOrder(df, s) == SortByDate(symbol_transactions(df, s))
LotsAfter(df, s, k) ==
    fifo_rows([bought_lots |-> <<>>, realized_gl |-> 0],
              SubSeq(FifoOrder(df, s), 1, k)).bought_lots

\* Bought minus sold over the first k rows.
NetAfter(rows, k) ==
    SumRows(SubSeq(rows, 1, k), "Buy", "quantity")
        - SumRows(SubSeq(rows, 1, k), "Sell", "quantity")

\* The lots are the last purchases, oldest first, the oldest of them
\* possibly sold in part.
InPurchaseOrder(lots, buys) ==
    /\ Len(lots) <= Len(buys)
    /\ \A j \in 1..Len(lots) :
          /\ lots[j].price = buys[Len(buys) - Len(lots) + j].price
          /\ lots[j].quantity <= buys[Len(buys) - Len(lots) + j].quantity
          /\ j > 1 => lots[j].quantity = buys[Len(buys) - Len(lots) + j].quantity

\* C27: after every transaction of a symbol each lot of its queue has a
\* quantity above 0 and the lots are in purchase order; while no Sell has
\* exceeded the open quantity, the quantities of the lots add up to bought
\* minus sold so far, which at the end is the quantity the holdings
\* computation arrives at.
C27_LotQueue ==
    out.op = "realized_gains_losses" =>
        \A s \in SymbolSet(ledger) :
            /\ \A k \in 0..Len(FifoOrder(ledger, s)) :
                  /\ \A j \in 1..Len(LotsAfter(ledger, s, k)) :
                        LotsAfter(ledger, s, k)[j].quantity > 0
                  /\ InPurchaseOrder(LotsAfter(ledger, s, k),
                                     SelectSeq(SubSeq(FifoOrder(ledger, s), 1, k),
                                               LAMBDA t : t.action = "Buy"))
                  /\ (\A i \in 0..k : NetAfter(FifoOrder(ledger, s), i) >= 0) =>
                        LotsQuantity(LotsAfter(ledger, s, k))
                            = NetAfter(FifoOrder(ledger, s), k)
            /\ out.bought_lots[s]
                  = LotsAfter(ledger, s, Len(FifoOrder(ledger, s)))
            /\ (\A i \in 0..Len(FifoOrder(ledger, s)) :
                    NetAfter(FifoOrder(ledger, s), i) >= 0) =>
                  LotsQuantity(out.bought_lots[s])
                      = holding_totals(ledger, s).total_shares

\* Two purchases and a sale that takes the first lot whole and part of
\* the second: 3 shares are left in one lot.
C27_Witness ==
    /\ out.op = "realized_gains_losses"
    /\ Len(ledger) = 3
    /\ ledger[3].action = "Sell" /\ ledger[3].quantity = 12
    /\ out.bought_lots["AAA"] = <<Lot(3, 200)>>
    /\ holding_totals(ledger, "AAA").total_shares = 3

\* ---------------------------------------------------------------------
\* C28.  What a symbol sold out has realized.

\* The symbol was traded, no Sell exceeded the quantity held when the loop
\* came to it, and all that was bought was sold.
FullyLiquidated(df, s) ==
    /\ FifoOrder(df, s) # <<>>
    /\ \A i \in 0..Len(FifoOrder(df, s)) : NetAfter(FifoOrder(df, s), i) >= 0
    /\ NetAfter(FifoOrder(df, s), Len(FifoOrder(df, s))) = 0

\* C28: for a symbol whose Sells never exceed the quantity held and whose
\* sales add up to its purchases, the realized gain of the symbol is the
\* sum of its Sell quantity x price minus the sum of its Buy quantity x
\* price, and its lot queue ends empty.
C28_FullLiquidation ==
    out.op = "realized_gains_losses" =>
        \A s \in SymbolSet(ledger) :
            FullyLiquidated(ledger, s) =>
                /\ out.bought_lots[s] = <<>>
                /\ out.realized_gl - GainBySymbol(ledger, SymbolSet(ledger) \ {s})
                      = SumRows(FifoOrder(ledger, s), "Sell", "cost")
                          - SumRows(FifoOrder(ledger, s), "Buy", "cost")

\* Two purchases of AAA sold in one sale.
C28_Witness ==
    /\ out.op = "realized_gains_losses"
    /\ FullyLiquidated(ledger, "AAA")
    /\ Len(FifoOrder(ledger, "AAA")) = 3
    /\ FifoOrder(ledger, "AAA")[3].action = "Sell"
    /\ out.bought_lots["AAA"] = <<>>
    /\ out.realized_gl # 0

\* ---------------------------------------------------------------------
\* C29.  The cost basis of the two holdings computations.

\* The rows the two tables have for a symbol carry the same quantity and
\* the same avg_cost.
SameBasis(priced, plain, s) ==
    \A i \in RowsOf(priced, s), j \in RowsOf(plain, s) :
        /\ priced[i].quantity = plain[j].quantity
        /\ priced[i].avg_cost = plain[j].avg_cost

\* The two tables hold the same symbols, with the same quantities.
SamePosition(priced, plain, s) ==
    /\ RowsOf(priced, s) # {} <=> RowsOf(plain, s) # {}
    /\ \A i \in RowsOf(priced, s), j \in RowsOf(plain, s) :
           priced[i].quantity = plain[j].quantity

\* No Buy of the symbol comes after a Sell of it.
SalesLast(rows) ==
    \A i, j \in 1..Len(rows) :
        (rows[i].action = "Sell" /\ rows[j].action = "Buy") => j < i

\* C29: for every ledger and every symbol whose price lookup succeeds,
\* calculate_current_holdings and calculate_current_holdings_without_prices
\* hold the same symbols with the same quantity and the same avg_cost.
C29_SameCostBasis ==
    (out.op = "holdings" /\ ~out.raised) =>
        \A s \in EquitySymbols :
            LookupSucceeds(out.lookups[s]) =>
                /\ SamePosition(out.holdings,
                                calculate_current_holdings_without_prices(ledger), s)
                /\ SameBasis(out.holdings,
                             calculate_current_holdings_without_prices(ledger), s)

\* What does hold: the symbols held and their quantities are the same, and
\* so is avg_cost for a symbol with no Buy after a Sell.
C29_SamePositionsAndBasisOfSalesLast ==
    (out.op = "holdings" /\ ~out.raised) =>
        \A s \in EquitySymbols :
            LookupSucceeds(out.lookups[s]) =>
                /\ SamePosition(out.holdings,
                                calculate_current_holdings_without_prices(ledger), s)
                /\ SalesLast(TradesOf(ledger, s)) =>
                       SameBasis(out.holdings,
                                 calculate_current_holdings_without_prices(ledger), s)

\* ---------------------------------------------------------------------
\* C30.  The price cache over get_current_prices and clear_cache calls.

SymbolsOf(call) == {call.symbols[i] : i \in 1..Len(call.symbols)}

\* Call k fetched the last close of the symbol from the batch: the price
\* returned is the close of that call's history.
FetchedInBatch(k, s) ==
    /\ calls[k].op = "get_current_prices"
    /\ s \in SymbolsOf(calls[k])
    /\ ~calls[k].env.other
    /\ calls[k].env.tickers = "ok"
    /\ calls[k].env.history[s].hist = "close"
    /\ calls[k].prices[s] = calls[k].env.history[s].close

\* The calls before call i that fetched the symbol from the batch less
\* than cache_duration before call i, with no clear_cache since.
UsableFetches(i, s) ==
    {k \in 1..(i - 1) :
        /\ FetchedInBatch(k, s)
        /\ calls[i].current_time - calls[k].current_time < cache_duration
        /\ \A j \in (k + 1)..(i - 1) : calls[j].op # "clear_cache"}

LastOf(S) == CHOOSE k \in S : \A j \in S : j <= k

\* What a new fetch of the symbol gives during the call.
NewFetch(call, s) ==
    IF call.env.history[s].hist = "close" THEN call.env.history[s].close ELSE 0

\* Call i returns the price of the last usable fetch if there is one, and
\* what a new fetch gives otherwise.
CacheOrFetch(i, s) ==
    IF UsableFetches(i, s) # {}
    THEN calls[i].prices[s] = calls[LastOf(UsableFetches(i, s))].prices[s]
    ELSE calls[i].prices[s] = NewFetch(calls[i], s)

\* C30: over any sequence of get_current_prices and clear_cache calls,
\* price_cache and cache_timestamp have the same keys; a price is served
\* from the cache only if it was fetched less than cache_duration earlier,
\* and is fetched again otherwise; the 0.0 of a failed lookup is never
\* stored, so that a failed symbol is fetched again on the next request;
\* and after clear_cache every symbol is fetched afresh.
C30_PriceCache ==
    /\ DOMAIN stock_fetcher.price_cache = DOMAIN stock_fetcher.cache_timestamp
    /\ \A s \in DOMAIN stock_fetcher.price_cache : stock_fetcher.price_cache[s] # 0
    /\ out.op = "clear_cache" => DOMAIN stock_fetcher.price_cache = {}
    /\ \A i \in 1..Len(calls) :
          (calls[i].op = "get_current_prices" /\ ~calls[i].env.other) =>
              \A s \in SymbolsOf(calls[i]) : CacheOrFetch(i, s)

\* AAA is fetched, the cache is cleared, and AAA asked for again within
\* cache_duration is fetched again.
C30_Witness ==
    /\ Len(calls) = 3
    /\ FetchedInBatch(1, "AAA")
    /\ "AAA" \notin DOMAIN calls[1].before.price_cache
    /\ calls[2].op = "clear_cache"
    /\ "AAA" \in DOMAIN calls[2].before.price_cache
    /\ FetchedInBatch(3, "AAA")
    /\ calls[3].current_time - calls[1].current_time < cache_duration
    /\ calls[3].prices["AAA"] # calls[1].prices["AAA"]

=============================================================================
